---- MODULE Spec2Model ----
(***************************************************************************)
(* A model of the Acceleronix CMP MCP server: the signed API client        *)
(* (src/src/cmp_client.ts) and the tool handlers that drive it             *)
(* (src/unnamed/part_001, the server's index.ts).                          *)
(*                                                                         *)
(* Strings are sequences of Unicode code points (ASCII for the most part), *)
(* buffers are sequences of bytes, and JavaScript values are tagged        *)
(* records, so that JSON.stringify, JSON.parse, UTF-8 and base64 are       *)
(* computed the way the runtime computes them.                             *)
(***************************************************************************)
EXTENDS Integers, Sequences, FiniteSets, TLC

VARIABLES
  env,        \* process.env, as read at start-up
  config,     \* the server's config object
  cmpClient,  \* the lazily constructed client of the server
  last,       \* the call being answered: its arguments, the remote's answer, its outcome
  chain,      \* a caller that pages through a list by feeding back nextCursor
  codec,      \* one application of the cursor codec
  calls       \* tool calls in flight at once: where each stands, the client it obtained

vars == <<env, config, cmpClient, last, chain, codec, calls>>

---------------------------------------------------------------------------
(* JavaScript values *)

Undefined == [t |-> "undefined"]
JNull == [t |-> "null"]
NaN == [t |-> "nan"]
Num(n) == [t |-> "num", n |-> n]
Str(s) == [t |-> "str", s |-> s]
Bool(b) == [t |-> "bool", b |-> b]
\* an object is the sequence of its own <<key, value>> entries in insertion order
Obj(m) == [t |-> "obj", m |-> m]
Arr(a) == [t |-> "arr", a |-> a]
\* a JSON number with a fraction or an exponent, kept as its lexeme
Real(lex) == [t |-> "real", lex |-> lex]

\* ToBoolean: what `if (x)`, `!x` and `x || y` test
Truthy(v) ==
  CASE v.t = "undefined" -> FALSE
    [] v.t = "null" -> FALSE
    [] v.t = "nan" -> FALSE
    [] v.t = "num" -> v.n # 0
    [] v.t = "str" -> v.s # <<>>
    [] v.t = "bool" -> v.b
    [] OTHER -> TRUE

\* a || b
OrElse(a, b) == IF Truthy(a) THEN a ELSE b

HasKey(m, k) == \E i \in 1..Len(m) : m[i][1] = k

EntryValue(m, k) == m[CHOOSE i \in 1..Len(m) : m[i][1] = k][2]

\* o.k for a value o that is neither null nor undefined
Get(o, k) == IF o.t = "obj" /\ HasKey(o.m, k) THEN EntryValue(o.m, k) ELSE Undefined

\* o[k] = v on the entry list: an existing key keeps its position
SetKey(m, k, v) ==
  IF HasKey(m, k)
  THEN [i \in 1..Len(m) |-> IF m[i][1] = k THEN <<k, v>> ELSE m[i]]
  ELSE Append(m, <<k, v>>)

\* delete o[k]
RemoveKey(m, k) == SelectSeq(m, LAMBDA e : e[1] # k)

RECURSIVE Digits(_)
Digits(n) == IF n < 10 THEN <<48 + n>> ELSE Append(Digits(n \div 10), 48 + (n % 10))

\* Number.prototype.toString for an integer
NumberToString(n) == IF n < 0 THEN <<45>> \o Digits(-n) ELSE Digits(n)

\* the own enumerable entries that `...v` copies
OwnEntries(v) ==
  CASE v.t = "obj" -> v.m
    [] v.t = "arr" -> [i \in 1..Len(v.a) |-> <<NumberToString(i - 1), v.a[i]>>]
    [] v.t = "str" -> [i \in 1..Len(v.s) |-> <<NumberToString(i - 1), Str(<<v.s[i]>>)>>]
    [] OTHER -> <<>>

\* { ...m, ...src } on entry lists: later entries override earlier ones
RECURSIVE SpreadInto(_, _)
SpreadInto(m, src) ==
  IF src = <<>> THEN m
  ELSE SpreadInto(SetKey(m, Head(src)[1], Head(src)[2]), Tail(src))

\* a < b: false whenever an operand is not a number (undefined compares as NaN)
Lt(a, b) == a.t = "num" /\ b.t = "num" /\ a.n < b.n

\* Math.min(a, b) on numbers
MathMin(a, b) ==
  IF a.t = "num" /\ b.t = "num" THEN (IF a.n < b.n THEN a ELSE b) ELSE NaN

\* an Error: its message is the template with each % replaced by an argument
Err(tmpl, args) == [tmpl |-> tmpl, args |-> args]
NoError == Err("", <<>>)

\* return and throw
Return(v) == [ok |-> TRUE, v |-> v, err |-> NoError]
Throw(e) == [ok |-> FALSE, v |-> Undefined, err |-> e]

---------------------------------------------------------------------------
(* Buffer: UTF-8 and base64 *)

\* Buffer.from(input, "utf-8")
RECURSIVE BufferFromUtf8(_)
BufferFromUtf8(s) ==
  IF s = <<>> THEN <<>>
  ELSE LET c == Head(s) IN
    (IF c < 128 THEN <<c>>
     ELSE IF c < 2048 THEN <<192 + (c \div 64), 128 + (c % 64)>>
     ELSE <<224 + (c \div 4096), 128 + ((c \div 64) % 64), 128 + (c % 64)>>)
    \o BufferFromUtf8(Tail(s))

IsCont(b) == b >= 128 /\ b <= 191

\* buf.toString("utf-8"): never fails, an ill-formed byte becomes U+FFFD
\* (four-byte sequences are not decoded here: each byte becomes U+FFFD)
RECURSIVE BufferToUtf8(_)
BufferToUtf8(b) ==
  IF b = <<>> THEN <<>>
  ELSE LET b1 == b[1]
           n == Len(b)
           cp2 == (b1 - 192) * 64 + (b[2] - 128)
           cp3 == (b1 - 224) * 4096 + (b[2] - 128) * 64 + (b[3] - 128)
       IN IF b1 < 128 THEN <<b1>> \o BufferToUtf8(Tail(b))
          ELSE IF b1 >= 194 /\ b1 <= 223 /\ n >= 2 /\ IsCont(b[2])
            THEN <<cp2>> \o BufferToUtf8(SubSeq(b, 3, n))
          ELSE IF b1 >= 224 /\ b1 <= 239 /\ n >= 3 /\ IsCont(b[2]) /\ IsCont(b[3])
                  /\ cp3 >= 2048 /\ cp3 \notin 55296..57343
            THEN <<cp3>> \o BufferToUtf8(SubSeq(b, 4, n))
          ELSE <<65533>> \o BufferToUtf8(Tail(b))

\* the base64 alphabet: A-Z a-z 0-9 + /
B64Char(v) ==
  IF v < 26 THEN 65 + v
  ELSE IF v < 52 THEN 71 + v
  ELSE IF v < 62 THEN v - 4
  ELSE IF v = 62 THEN 43 ELSE 47

\* the decoder's table: the standard and the URL-safe alphabet, 64 = illegal
unbase64(c) ==
  IF c \in 65..90 THEN c - 65
  ELSE IF c \in 97..122 THEN c - 71
  ELSE IF c \in 48..57 THEN c + 4
  ELSE IF c \in {43, 45} THEN 62
  ELSE IF c \in {47, 95} THEN 63
  ELSE 64

\* buf.toString("base64")
RECURSIVE BufferToBase64(_)
BufferToBase64(b) ==
  LET n == Len(b) IN
  IF n = 0 THEN <<>>
  ELSE IF n = 1 THEN
    <<B64Char(b[1] \div 4), B64Char((b[1] % 4) * 16), 61, 61>>
  ELSE IF n = 2 THEN
    <<B64Char(b[1] \div 4), B64Char((b[1] % 4) * 16 + b[2] \div 16),
      B64Char((b[2] % 16) * 4), 61>>
  ELSE
    <<B64Char(b[1] \div 4), B64Char((b[1] % 4) * 16 + b[2] \div 16),
      B64Char((b[2] % 16) * 4 + b[3] \div 64), B64Char(b[3] % 64)>>
    \o BufferToBase64(SubSeq(b, 4, n))

\* LegalSextets with the defect of skipping '=' like any other illegal character
RECURSIVE LegalSextets_NoStop(_)
LegalSextets_NoStop(s) ==
  IF s = <<>> THEN <<>>
  ELSE IF unbase64(Head(s)) < 64 THEN <<unbase64(Head(s))>> \o LegalSextets_NoStop(Tail(s))
  ELSE LegalSextets_NoStop(Tail(s))

\* the decoder skips every illegal character and stops at the first '='
RECURSIVE LegalSextets(_)
LegalSextets(s) ==
  IF s = <<>> \/ Head(s) = 61 THEN <<>>
  ELSE IF unbase64(Head(s)) < 64 THEN <<unbase64(Head(s))>> \o LegalSextets(Tail(s))
  ELSE LegalSextets(Tail(s))

\* four sextets give three bytes; a trailing group of two or three gives one or two
RECURSIVE SextetsToBytes(_)
SextetsToBytes(x) ==
  LET n == Len(x) IN
  IF n < 2 THEN <<>>
  ELSE IF n = 2 THEN <<x[1] * 4 + x[2] \div 16>>
  ELSE IF n = 3 THEN <<x[1] * 4 + x[2] \div 16, (x[2] % 16) * 16 + x[3] \div 4>>
  ELSE <<x[1] * 4 + x[2] \div 16, (x[2] % 16) * 16 + x[3] \div 4, (x[3] % 4) * 64 + x[4]>>
       \o SextetsToBytes(SubSeq(x, 5, n))

\* Buffer.from(input, "base64"): lenient, never fails
BufferFromBase64(s) == SextetsToBytes(LegalSextets(s))

\* base64Encode with the defect of taking each character as one byte (latin1)
base64Encode_Latin1(input) == BufferToBase64(input)

base64Encode(input) == BufferToBase64(BufferFromUtf8(input))

base64Decode(input) == BufferToUtf8(BufferFromBase64(input))

---------------------------------------------------------------------------
(* JSON *)

Hex(d) == IF d < 10 THEN 48 + d ELSE 87 + d

\* the escape JSON.stringify writes for one character of a string
QuoteChar(c) ==
  CASE c = 34 -> <<92, 34>>
    [] c = 92 -> <<92, 92>>
    [] c = 8 -> <<92, 98>>
    [] c = 12 -> <<92, 102>>
    [] c = 10 -> <<92, 110>>
    [] c = 13 -> <<92, 114>>
    [] c = 9 -> <<92, 116>>
    [] c < 32 /\ c \notin {8, 9, 10, 12, 13} -> <<92, 117, 48, 48, Hex(c \div 16), Hex(c % 16)>>
    [] OTHER -> <<c>>

RECURSIVE QuoteBody(_)
QuoteBody(s) == IF s = <<>> THEN <<>> ELSE QuoteChar(Head(s)) \o QuoteBody(Tail(s))

QuoteJSONString(s) == <<34>> \o QuoteBody(s) \o <<34>>

\* JSON.stringify(v) without indentation, for a JSON-serializable v
RECURSIVE JSONStringify(_), StringifyMembers(_), StringifyElements(_)
JSONStringify(v) ==
  CASE v.t = "num" -> NumberToString(v.n)
    [] v.t = "real" -> v.lex
    [] v.t = "str" -> QuoteJSONString(v.s)
    [] v.t = "bool" -> IF v.b THEN <<116, 114, 117, 101>> ELSE <<102, 97, 108, 115, 101>>
    [] v.t = "obj" ->
         <<123>> \o StringifyMembers(SelectSeq(v.m, LAMBDA e : e[2].t # "undefined")) \o <<125>>
    [] v.t = "arr" -> <<91>> \o StringifyElements(v.a) \o <<93>>
    [] OTHER -> <<110, 117, 108, 108>>

\* m holds no undefined value: JSON.stringify leaves those members out
StringifyMembers(m) ==
  IF m = <<>> THEN <<>>
  ELSE QuoteJSONString(m[1][1]) \o <<58>> \o JSONStringify(m[1][2])
       \o (IF Len(m) > 1 THEN <<44>> \o StringifyMembers(Tail(m)) ELSE <<>>)

StringifyElements(a) ==
  IF a = <<>> THEN <<>>
  ELSE JSONStringify(a[1])
       \o (IF Len(a) > 1 THEN <<44>> \o StringifyElements(Tail(a)) ELSE <<>>)

PFail == [ok |-> FALSE, v |-> Undefined, i |-> 0]
POk(v, i) == [ok |-> TRUE, v |-> v, i |-> i]

\* the character at position i, -1 past the end
At(s, i) == IF i >= 1 /\ i <= Len(s) THEN s[i] ELSE -1

IsDigit(c) == c >= 48 /\ c <= 57
IsHex(c) == IsDigit(c) \/ (c >= 65 /\ c <= 70) \/ (c >= 97 /\ c <= 102)
HexVal(c) == IF c <= 57 THEN c - 48 ELSE IF c <= 70 THEN c - 55 ELSE c - 87

RECURSIVE SkipWs(_, _)
SkipWs(s, i) == IF At(s, i) \in {32, 9, 10, 13} THEN SkipWs(s, i + 1) ELSE i

RECURSIVE DigitsEnd(_, _)
DigitsEnd(s, i) == IF IsDigit(At(s, i)) THEN DigitsEnd(s, i + 1) ELSE i

\* the value of the digits s[i..j-1]
RECURSIVE DigitsValue(_, _, _)
DigitsValue(s, i, j) ==
  IF j <= i THEN 0 ELSE DigitsValue(s, i, j - 1) * 10 + (s[j - 1] - 48)

MatchAt(s, i, lit) ==
  i + Len(lit) - 1 <= Len(s) /\ SubSeq(s, i, i + Len(lit) - 1) = lit

\* the number whose integer part is s[d0..intEnd-1], fraction up to fracEnd and
\* exponent digits s[e0..expEnd-1]
NumberOf(s, i, d0, intEnd, fracEnd, e0, expEnd) ==
  LET hasFrac == At(s, intEnd) = 46
      hasExp == At(s, fracEnd) \in {101, 69}
      mag == DigitsValue(s, d0, intEnd)
  IN IF intEnd = d0 \/ (hasFrac /\ fracEnd = intEnd + 1) \/ (hasExp /\ expEnd = e0)
       THEN PFail
     ELSE IF hasFrac \/ hasExp THEN POk(Real(SubSeq(s, i, expEnd - 1)), expEnd)
     ELSE POk(Num(IF d0 > i THEN 0 - mag ELSE mag), expEnd)

NumberExp(s, i, d0, intEnd, fracEnd, e0) ==
  NumberOf(s, i, d0, intEnd, fracEnd, e0,
           IF At(s, fracEnd) \in {101, 69} THEN DigitsEnd(s, e0) ELSE fracEnd)

NumberFrac(s, i, d0, intEnd, fracEnd) ==
  NumberExp(s, i, d0, intEnd, fracEnd,
            IF At(s, fracEnd + 1) \in {43, 45} THEN fracEnd + 2 ELSE fracEnd + 1)

NumberInt(s, i, d0, intEnd) ==
  NumberFrac(s, i, d0, intEnd,
             IF At(s, intEnd) = 46 THEN DigitsEnd(s, intEnd + 1) ELSE intEnd)

NumberSign(s, i, d0) ==
  NumberInt(s, i, d0, IF At(s, d0) = 48 THEN d0 + 1 ELSE DigitsEnd(s, d0))

\* number: -? (0 | [1-9][0-9]*) (. [0-9]+)? ([eE] [+-]? [0-9]+)?
ParseNumber(s, i) == NumberSign(s, i, IF At(s, i) = 45 THEN i + 1 ELSE i)

\* the rest of a string literal, from the character after the opening quote
RECURSIVE ScanString(_, _, _)
ScanString(s, i, acc) ==
  LET c == At(s, i)
      e == At(s, i + 1)
  IN IF c < 32 THEN PFail
     ELSE IF c = 34 THEN POk(Str(acc), i + 1)
     ELSE IF c = 92 THEN
       (IF e \in {34, 92, 47} THEN ScanString(s, i + 2, Append(acc, e))
        ELSE IF e = 98 THEN ScanString(s, i + 2, Append(acc, 8))
        ELSE IF e = 102 THEN ScanString(s, i + 2, Append(acc, 12))
        ELSE IF e = 110 THEN ScanString(s, i + 2, Append(acc, 10))
        ELSE IF e = 114 THEN ScanString(s, i + 2, Append(acc, 13))
        ELSE IF e = 116 THEN ScanString(s, i + 2, Append(acc, 9))
        ELSE IF e = 117 /\ IsHex(At(s, i + 2)) /\ IsHex(At(s, i + 3))
                /\ IsHex(At(s, i + 4)) /\ IsHex(At(s, i + 5))
          THEN ScanString(s, i + 6,
                 Append(acc, HexVal(s[i + 2]) * 4096 + HexVal(s[i + 3]) * 256
                             + HexVal(s[i + 4]) * 16 + HexVal(s[i + 5])))
        ELSE PFail)
     ELSE ScanString(s, i + 1, Append(acc, c))

RECURSIVE ParseValue(_, _), ParseMembers(_, _, _), ParseElements(_, _, _)

\* after a member's value v: the member is stored, then '}' or ',' follows
MemberStored(s, m2, d) ==
  IF At(s, d) = 125 THEN POk(Obj(m2), d + 1)
  ELSE IF At(s, d) = 44 THEN ParseMembers(s, SkipWs(s, d + 1), m2)
  ELSE PFail

MemberValue(s, m, k, v) ==
  IF ~v.ok THEN PFail ELSE MemberStored(s, SetKey(m, k.v.s, v.v), SkipWs(s, v.i))

\* after a member's key k: ':' and the value follow
MemberColon(s, m, k, c) ==
  IF At(s, c) # 58 THEN PFail ELSE MemberValue(s, m, k, ParseValue(s, c + 1))

MemberKey(s, m, k) ==
  IF ~k.ok THEN PFail ELSE MemberColon(s, m, k, SkipWs(s, k.i))

\* the members of an object, i at the first character of a member
ParseMembers(s, i, m) ==
  IF At(s, i) # 34 THEN PFail ELSE MemberKey(s, m, ScanString(s, i + 1, <<>>))

ElementStored(s, a2, d) ==
  IF At(s, d) = 93 THEN POk(Arr(a2), d + 1)
  ELSE IF At(s, d) = 44 THEN ParseElements(s, d + 1, a2)
  ELSE PFail

ElementValue(s, a, v) ==
  IF ~v.ok THEN PFail ELSE ElementStored(s, Append(a, v.v), SkipWs(s, v.i))

\* the elements of an array, i at the first character of an element
ParseElements(s, i, a) == ElementValue(s, a, ParseValue(s, i))

\* the value that starts with the character c at position i; j follows the white space after c
ValueAt(s, i, c, j) ==
  CASE c = 123 -> IF At(s, j) = 125 THEN POk(Obj(<<>>), j + 1) ELSE ParseMembers(s, j, <<>>)
    [] c = 91 -> IF At(s, j) = 93 THEN POk(Arr(<<>>), j + 1) ELSE ParseElements(s, j, <<>>)
    [] c = 34 -> ScanString(s, i + 1, <<>>)
    [] c = 45 \/ IsDigit(c) -> ParseNumber(s, i)
    [] c = 116 -> IF MatchAt(s, i, <<116, 114, 117, 101>>) THEN POk(Bool(TRUE), i + 4) ELSE PFail
    [] c = 102 -> IF MatchAt(s, i, <<102, 97, 108, 115, 101>>) THEN POk(Bool(FALSE), i + 5) ELSE PFail
    [] c = 110 -> IF MatchAt(s, i, <<110, 117, 108, 108>>) THEN POk(JNull, i + 4) ELSE PFail
    [] OTHER -> PFail

ValueFrom(s, i) == ValueAt(s, i, At(s, i), SkipWs(s, i + 1))

ParseValue(s, i0) == ValueFrom(s, SkipWs(s, i0))

\* the whole text is one value and white space
WholeText(s, r) ==
  IF r.ok /\ SkipWs(s, r.i) = Len(s) + 1 THEN Return(r.v) ELSE Throw(Err("SyntaxError", <<>>))

\* JSON.parse(text): the value, or a SyntaxError
JSONParse(s) == WholeText(s, ParseValue(s, 1))

---------------------------------------------------------------------------
(* Cursor codec: CMPClient.createCursor / CMPClient.parseCursor *)

createCursor(data) == base64Encode(JSONStringify(data))

\* the catch block of parseCursor
CursorCaught(r) == IF r.ok THEN r ELSE Throw(Err("Invalid cursor format", <<>>))

parseCursor(cursor) == CursorCaught(JSONParse(base64Decode(cursor)))

---------------------------------------------------------------------------
(* Property names, as strings *)

K ==
  [ pageNum |-> <<112, 97, 103, 101, 78, 117, 109>>,
    pageSize |-> <<112, 97, 103, 101, 83, 105, 122, 101>>,
    cursor |-> <<99, 117, 114, 115, 111, 114>>,
    format |-> <<102, 111, 114, 109, 97, 116>>,
    enterpriseDataPlan |-> <<101, 110, 116, 101, 114, 112, 114, 105, 115, 101, 68, 97, 116, 97, 80, 108, 97, 110>>,
    expirationTimeStart |-> <<101, 120, 112, 105, 114, 97, 116, 105, 111, 110, 84, 105, 109, 101, 83, 116, 97, 114, 116>>,
    expirationTimeEnd |-> <<101, 120, 112, 105, 114, 97, 116, 105, 111, 110, 84, 105, 109, 101, 69, 110, 100>>,
    iccidStart |-> <<105, 99, 99, 105, 100, 83, 116, 97, 114, 116>>,
    iccidEnd |-> <<105, 99, 99, 105, 100, 69, 110, 100>>,
    label |-> <<108, 97, 98, 101, 108>>,
    simState |-> <<115, 105, 109, 83, 116, 97, 116, 101>>,
    simType |-> <<115, 105, 109, 84, 121, 112, 101>>,
    iccid |-> <<105, 99, 99, 105, 100>>,
    month |-> <<109, 111, 110, 116, 104>>,
    childEnterpriseId |-> <<99, 104, 105, 108, 100, 69, 110, 116, 101, 114, 112, 114, 105, 115, 101, 73, 100>>,
    profileStatus |-> <<112, 114, 111, 102, 105, 108, 101, 83, 116, 97, 116, 117, 115>>,
    code |-> <<99, 111, 100, 101>>,
    msg |-> <<109, 115, 103>>,
    data |-> <<100, 97, 116, 97>>,
    current |-> <<99, 117, 114, 114, 101, 110, 116>>,
    pages |-> <<112, 97, 103, 101, 115>>,
    total |-> <<116, 111, 116, 97, 108>>,
    list |-> <<108, 105, 115, 116>>,
    nextCursor |-> <<110, 101, 120, 116, 67, 117, 114, 115, 111, 114>>,
    content |-> <<99, 111, 110, 116, 101, 110, 116>>,
    maxResults |-> <<109, 97, 120, 82, 101, 115, 117, 108, 116, 115>> ]

---------------------------------------------------------------------------
(* String helpers of the runtime *)

\* the white space String.prototype.trim and parseInt strip
WhiteSpace == {9, 10, 11, 12, 13, 32, 160, 5760, 8232, 8233, 8239, 8287, 12288, 65279} \cup (8192..8202)

RECURSIVE TrimStart(_)
TrimStart(s) == IF s # <<>> /\ Head(s) \in WhiteSpace THEN TrimStart(Tail(s)) ELSE s

RECURSIVE TrimEnd(_)
TrimEnd(s) ==
  IF s # <<>> /\ s[Len(s)] \in WhiteSpace THEN TrimEnd(SubSeq(s, 1, Len(s) - 1)) ELSE s

\* s.trim()
Trim(s) == TrimEnd(TrimStart(s))

\* parseInt(s, 10): the longest decimal prefix after white space and a sign, or NaN
ParseInt(s) ==
  LET t == TrimStart(s)
      signed == At(t, 1) \in {43, 45}
      d0 == IF signed THEN 2 ELSE 1
      dEnd == DigitsEnd(t, d0)
      mag == DigitsValue(t, d0, dEnd)
  IN IF dEnd = d0 THEN NaN
     ELSE Num(IF At(t, 1) = 45 THEN 0 - mag ELSE mag)

\* typeof v
TypeOf(v) ==
  CASE v.t \in {"obj", "arr", "null"} -> "object"
    [] v.t \in {"num", "real", "nan"} -> "number"
    [] v.t = "str" -> "string"
    [] v.t = "bool" -> "boolean"
    [] OTHER -> "undefined"

\* a destructuring default: `{ x = d } = options`
Default(v, d) == IF v.t = "undefined" THEN d ELSE v

---------------------------------------------------------------------------
(* Configuration: the server's `config` object *)

ToolMaxPageSize == 50
FallbackPageSize == 10

LoadConfig(e) ==
  [ apiKey |-> e.CMP_API_KEY,
    apiSecret |-> e.CMP_API_SECRET,
    defaultPageSize |->
      MathMin(OrElse(ParseInt(Default(e.DEFAULT_PAGE_SIZE, Str(<<49, 48>>)).s), Num(FallbackPageSize)),
              Num(ToolMaxPageSize)) ]

---------------------------------------------------------------------------
(* CMPClient: the request executor and the four query operations *)

MSG_OK == <<79, 75>>
MSG_UNKNOWN == <<85, 110, 107, 110, 111, 119, 110, 32, 101, 114, 114, 111, 114>>

ClientMaxPageSize == 1000
ClientDefaultPageSize == 10
ClientDefaultPageNum == 1

\* the remote's answer to one fetch: a transport failure, or a status and a body
TransportFailure == [kind |-> "transport", status |-> 0, statusText |-> <<>>, text |-> <<>>]
\* response.statusText: the reason phrase the remote sends with a status
StatusText(status) ==
  CASE status = 200 -> <<79, 75>>
    [] status = 201 -> <<67, 114, 101, 97, 116, 101, 100>>
    [] status = 404 -> <<78, 111, 116, 32, 70, 111, 117, 110, 100>>
    [] status = 500 -> <<73, 110, 116, 101, 114, 110, 97, 108, 32, 83, 101, 114, 118, 101, 114,
                         32, 69, 114, 114, 111, 114>>
    [] OTHER -> <<>>

HttpResponse(status, text) ==
  [kind |-> "http", status |-> status, statusText |-> StatusText(status), text |-> text]

\* response.ok
ResponseOk(resp) == resp.status >= 200 /\ resp.status <= 299

\* the outcome of an operation: what it returns or throws, and the requests it dispatched
Outcome(res, sent) == [res |-> res, sent |-> sent]

\* the client's logger: none attached, or an object whose methods of the
\* levels in throws throw and whose other methods return
NoLogger == JNull
Logger(throws) == [t |-> "logger", throws |-> throws]

\* the server's logger: every method writes to stderr and returns
ServerLogger == Logger({})

\* this.logger?.[level](...args)
log(logger, level) ==
  IF logger.t = "logger" /\ level \in logger.throws
    THEN Throw(Err("logger failed", <<>>))
    ELSE Return(Undefined)

\* the checks on the parsed body with the defect of returning a body without
\* code as it is
CheckBody_Bare(logger, parsedBody, code) ==
  IF ~Truthy(parsedBody) \/ TypeOf(parsedBody) # "object"
    THEN Throw(Err("API Error: Invalid response format - %", <<parsedBody>>))
  ELSE IF code.t # "undefined" /\ code # Num(200)
    THEN Throw(Err("API Error [%]: %", <<code, OrElse(Get(parsedBody, K.msg), Str(MSG_UNKNOWN))>>))
  ELSE Return(parsedBody)

\* the checks on the parsed body with the defect of reporting the msg field
\* whatever it holds
CheckBody_RawMsg(logger, parsedBody, code) ==
  IF ~Truthy(parsedBody) \/ TypeOf(parsedBody) # "object"
    THEN Throw(Err("API Error: Invalid response format - %", <<parsedBody>>))
  ELSE IF code.t = "undefined"
    THEN Return(Obj(<<<<K.code, Num(200)>>, <<K.msg, Str(MSG_OK)>>, <<K.data, parsedBody>>>>))
  ELSE IF code # Num(200)
    THEN Throw(Err("API Error [%]: %", <<code, Get(parsedBody, K.msg)>>))
  ELSE Return(parsedBody)

\* CheckBody with the defect of returning an envelope whose code is not 200
\* when its data is an object
CheckBody_PassData(logger, parsedBody, code) ==
  IF ~Truthy(parsedBody) \/ TypeOf(parsedBody) # "object"
    THEN Throw(Err("API Error: Invalid response format - %", <<parsedBody>>))
  ELSE IF code.t = "undefined"
    THEN Return(Obj(<<<<K.code, Num(200)>>, <<K.msg, Str(MSG_OK)>>, <<K.data, parsedBody>>>>))
  ELSE IF code # Num(200) /\ TypeOf(Get(parsedBody, K.data)) # "object"
    THEN Throw(Err("API Error [%]: %", <<code, OrElse(Get(parsedBody, K.msg), Str(MSG_UNKNOWN))>>))
  ELSE Return(parsedBody)

\* CheckBody with the defect of returning an envelope whatever its code
CheckBody_AnyCode(logger, parsedBody, code) ==
  IF ~Truthy(parsedBody) \/ TypeOf(parsedBody) # "object"
    THEN Throw(Err("API Error: Invalid response format - %", <<parsedBody>>))
  ELSE IF code.t = "undefined"
    THEN Return(Obj(<<<<K.code, Num(200)>>, <<K.msg, Str(MSG_OK)>>, <<K.data, parsedBody>>>>))
  ELSE Return(parsedBody)

\* the checks on the parsed body, code being parsedBody.code
CheckBody(logger, parsedBody, code) ==
  IF ~Truthy(parsedBody) \/ TypeOf(parsedBody) # "object"
    THEN Throw(Err("API Error: Invalid response format - %", <<parsedBody>>))
  ELSE IF code.t = "undefined"
    THEN IF ~log(logger, "warn").ok THEN log(logger, "warn")
         ELSE Return(Obj(<<<<K.code, Num(200)>>, <<K.msg, Str(MSG_OK)>>, <<K.data, parsedBody>>>>))
  ELSE IF code # Num(200)
    THEN Throw(Err("API Error [%]: %", <<code, OrElse(Get(parsedBody, K.msg), Str(MSG_UNKNOWN))>>))
  ELSE Return(parsedBody)

\* await response.json(), the log of the data, and the checks
ReadBody(logger, parsed) ==
  IF ~parsed.ok THEN Throw(parsed.err)
  ELSE IF ~log(logger, "debug").ok THEN log(logger, "debug")
  ELSE CheckBody(logger, parsed.v, Get(parsed.v, K.code))

\* the try block of makeRequest, the request having been answered with resp
Attempt(logger, resp) ==
  IF resp.kind = "transport" THEN Throw(Err("fetch failed", <<>>))
  ELSE IF ~log(logger, "debug").ok THEN log(logger, "debug")
  ELSE IF ~ResponseOk(resp)
    THEN IF ~log(logger, "error").ok THEN log(logger, "error")
         ELSE Throw(Err("HTTP Error: % %", <<Num(resp.status), Str(resp.statusText)>>))
  ELSE ReadBody(logger, JSONParse(resp.text))

\* the catch block of makeRequest
RequestCaught(logger, attempt) ==
  IF attempt.ok THEN attempt
  ELSE IF ~log(logger, "error").ok THEN log(logger, "error")
  ELSE Throw(Err("Request failed: %", <<attempt.err>>))

\* makeRequest with the defect of dispatching the request again when the
\* first attempt fails
makeRequest_Retry(logger, method, resourcePath, data, resp) ==
  LET request == [method |-> method, path |-> resourcePath,
                  body |-> IF Truthy(data) THEN JSONStringify(data) ELSE <<>>]
  IN IF ~log(logger, "debug").ok THEN Outcome(log(logger, "debug"), <<>>)
     ELSE Outcome(RequestCaught(logger, Attempt(logger, resp)),
                  IF Attempt(logger, resp).ok THEN <<request>> ELSE <<request, request>>)

\* makeRequest: the two debug lines before the try block, then the request
makeRequest(logger, method, resourcePath, data, resp) ==
  IF ~log(logger, "debug").ok THEN Outcome(log(logger, "debug"), <<>>)
  ELSE Outcome(RequestCaught(logger, Attempt(logger, resp)),
               <<[method |-> method, path |-> resourcePath,
                  body |-> IF Truthy(data) THEN JSONStringify(data) ELSE <<>>]>>)

post(logger, resourcePath, data, resp) == makeRequest(logger, "POST", resourcePath, data, resp)

\* if (cond) data[k] = v
AddIf(m, cond, k, v) == IF cond THEN SetKey(m, k, v) ELSE m

\* if (options[k]) data[k] = options[k]
AddTruthy(m, options, k) == AddIf(m, Truthy(Get(options, k)), k, Get(options, k))

\* if (options[k] !== undefined) data[k] = options[k]
AddDefined(m, options, k) == AddIf(m, Get(options, k).t # "undefined", k, Get(options, k))

\* querySimList with the defect of sending the requested page size as it is
querySimList_Uncapped(logger, options, resp) ==
  post(logger, "/sim/page",
       Obj(<<<<K.pageNum, Default(Get(options, K.pageNum), Num(ClientDefaultPageNum))>>,
             <<K.pageSize, Default(Get(options, K.pageSize), Num(ClientDefaultPageSize))>>>>),
       resp)

\* querySimList with the defect of posting every key of its options
querySimList_Spread(logger, options, resp) ==
  post(logger, "/sim/page",
       Obj(SpreadInto(<<<<K.pageNum, Num(ClientDefaultPageNum)>>,
                        <<K.pageSize, Num(ClientDefaultPageSize)>>>>, OwnEntries(options))),
       resp)

querySimList(logger, options, resp) ==
  LET pageNum == Default(Get(options, K.pageNum), Num(ClientDefaultPageNum))
      pageSize == Default(Get(options, K.pageSize), Num(ClientDefaultPageSize))
      d0 == <<<<K.pageNum, pageNum>>, <<K.pageSize, MathMin(pageSize, Num(ClientMaxPageSize))>>>>
      d1 == AddTruthy(d0, options, K.enterpriseDataPlan)
      d2 == AddTruthy(d1, options, K.expirationTimeStart)
      d3 == AddTruthy(d2, options, K.expirationTimeEnd)
      d4 == AddTruthy(d3, options, K.iccidStart)
      d5 == AddTruthy(d4, options, K.iccidEnd)
      d6 == AddTruthy(d5, options, K.label)
      d7 == AddDefined(d6, options, K.simState)
      d8 == AddTruthy(d7, options, K.simType)
  IN post(logger, "/sim/page", Obj(d8), resp)

\* !iccid || !iccid.trim()
Blank(v) == ~Truthy(v) \/ (v.t = "str" /\ Trim(v.s) = <<>>)

\* v.trim()
Trimmed(v) == IF v.t = "str" THEN Str(Trim(v.s)) ELSE v

\* querySimDetail with the defect of sending the ICCID as given
querySimDetail_Untrimmed(logger, iccid, resp) ==
  IF Blank(iccid) THEN Outcome(Throw(Err("ICCID cannot be empty", <<>>)), <<>>)
  ELSE post(logger, "/sim/detail", Obj(<<<<K.iccid, iccid>>>>), resp)

querySimDetail(logger, iccid, resp) ==
  IF Blank(iccid) THEN Outcome(Throw(Err("ICCID cannot be empty", <<>>)), <<>>)
  ELSE post(logger, "/sim/detail", Obj(<<<<K.iccid, Trimmed(iccid)>>>>), resp)

\* the month test with the defect of an unanchored end, /^\d{6}/
SixDigits_Prefix(s) == Len(s) >= 6 /\ \A i \in 1..6 : IsDigit(s[i])

\* /^\d{6}$/.test(s)
SixDigits(s) == Len(s) = 6 /\ \A i \in 1..6 : IsDigit(s[i])

querySimMonthData(logger, options, resp) ==
  LET iccid == Get(options, K.iccid)
      month == Get(options, K.month)
  IN IF Blank(iccid) THEN Outcome(Throw(Err("ICCID cannot be empty", <<>>)), <<>>)
     ELSE IF Blank(month) THEN Outcome(Throw(Err("Month cannot be empty", <<>>)), <<>>)
     ELSE IF ~SixDigits(Trimmed(month).s)
       THEN Outcome(Throw(Err("Month format must be yyyyMM (e.g., 202301)", <<>>)), <<>>)
     ELSE post(logger, "/sim/queryMonthData",
               Obj(<<<<K.iccid, Trimmed(iccid)>>, <<K.month, Trimmed(month)>>>>), resp)

\* the range test with the defect of excluding both ends
OutOfRange_Exclusive(v) ==
  CASE v.t = "num" -> v.n <= 1 \/ v.n >= 9
    [] v.t = "null" -> TRUE
    [] OTHER -> FALSE

\* profileStatus < 1 || profileStatus > 9, for a number or null (null converts to 0)
OutOfRange(v) ==
  CASE v.t = "num" -> v.n < 1 \/ v.n > 9
    [] v.t = "null" -> TRUE
    [] OTHER -> FALSE

\* queryEuiccPage with the defect of validating profileStatus after the request
queryEuiccPage_PostFirst(logger, options, resp) ==
  LET pageNum == Default(Get(options, K.pageNum), Num(ClientDefaultPageNum))
      pageSize == Default(Get(options, K.pageSize), Num(ClientDefaultPageSize))
      profileStatus == Get(options, K.profileStatus)
      d0 == <<<<K.pageNum, pageNum>>, <<K.pageSize, MathMin(pageSize, Num(ClientMaxPageSize))>>>>
      d1 == AddDefined(d0, options, K.profileStatus)
      sent == post(logger, "/esim/euicc/page", Obj(d1), resp).sent
  IN IF profileStatus.t # "undefined" /\ OutOfRange(profileStatus)
       THEN Outcome(Throw(Err("Profile status must be between 1-9 (see ProfileStatus enum)", <<>>)),
                    sent)
     ELSE post(logger, "/esim/euicc/page", Obj(d1), resp)

queryEuiccPage(logger, options, resp) ==
  LET pageNum == Default(Get(options, K.pageNum), Num(ClientDefaultPageNum))
      pageSize == Default(Get(options, K.pageSize), Num(ClientDefaultPageSize))
      iccid == Get(options, K.iccid)
      profileStatus == Get(options, K.profileStatus)
      d0 == <<<<K.pageNum, pageNum>>, <<K.pageSize, MathMin(pageSize, Num(ClientMaxPageSize))>>>>
      d1 == AddDefined(d0, options, K.childEnterpriseId)
      d2 == AddIf(d1, ~Blank(iccid), K.iccid, Trimmed(iccid))
      d3 == AddDefined(d2, options, K.profileStatus)
  IN IF profileStatus.t # "undefined" /\ OutOfRange(profileStatus)
       THEN Outcome(Throw(Err("Profile status must be between 1-9 (see ProfileStatus enum)", <<>>)), <<>>)
     ELSE post(logger, "/esim/euicc/page", Obj(d3), resp)

---------------------------------------------------------------------------
(* The tool handlers of the server *)

\* let cmpClient: CMPClient | null
NoClient == JNull
\* new CMPClient(...) followed by cmpClient.setLogger(logger)
NewCMPClient(cfg) ==
  [t |-> "client", appKey |-> cfg.apiKey, appSecret |-> cfg.apiSecret, logger |-> ServerLogger]

\* getCMPClient with the defect of not testing the credentials
getCMPClient_Unchecked(cfg, client) ==
  IF ~Truthy(client)
    THEN [res |-> Return(NewCMPClient(cfg)), client |-> NewCMPClient(cfg)]
  ELSE [res |-> Return(client), client |-> client]

\* getCMPClient with the defect of constructing a client on every call
getCMPClient_Unguarded(cfg, client) ==
  IF ~Truthy(cfg.apiKey) \/ ~Truthy(cfg.apiSecret)
    THEN [res |-> Throw(Err("CMP API credentials not configured", <<>>)), client |-> client]
  ELSE [res |-> Return(NewCMPClient(cfg)), client |-> NewCMPClient(cfg)]

\* getCMPClient(): the client, and the value of the cmpClient global afterwards
getCMPClient(cfg, client) ==
  IF ~Truthy(cfg.apiKey) \/ ~Truthy(cfg.apiSecret)
    THEN [res |-> Throw(Err("CMP API credentials not configured", <<>>)), client |-> client]
  ELSE IF ~Truthy(client)
    THEN [res |-> Return(NewCMPClient(cfg)), client |-> NewCMPClient(cfg)]
  ELSE [res |-> Return(client), client |-> client]

\* what a tool call leaves behind: its result, the requests it dispatched, the
\* cmpClient global, and the page container the handler read (undefined if none)
ToolOutcome(res, sent, client, page) ==
  [res |-> res, sent |-> sent, client |-> client, page |-> page]

\* the handler's catch block: throw new McpError(InternalError, `${prefix}: ${message}`)
ToolFailure(prefix, e, sent, client) ==
  ToolOutcome(Throw(Err(prefix, <<e>>)), sent, client, Undefined)

\* pageNum and cursorData from the parsed cursor
CursorData(parsed) ==
  IF ~parsed.ok THEN parsed
  ELSE IF parsed.v.t = "null" THEN Throw(Err("TypeError", <<>>))
  ELSE Return([pageNum |-> OrElse(Get(parsed.v, K.pageNum), Num(1)), cursorData |-> parsed.v])

\* the start of a paged handler: pageNum and cursorData from params.cursor
CursorStep(params) ==
  IF ~Truthy(Get(params, K.cursor))
    THEN Return([pageNum |-> Num(1), cursorData |-> Obj(<<>>)])
  ELSE CursorData(parseCursor(Get(params, K.cursor).s))

\* Math.min(params.pageSize || config.defaultPageSize, 50)
ToolPageSize(params, cfg) ==
  MathMin(OrElse(Get(params, K.pageSize), cfg.defaultPageSize), Num(ToolMaxPageSize))

\* { pageNum, pageSize, ...params } without cursor and format
QueryParams(pageNum, pageSize, params) ==
  Obj(RemoveKey(RemoveKey(
        SpreadInto(<<<<K.pageNum, pageNum>>, <<K.pageSize, pageSize>>>>, OwnEntries(params)),
        K.cursor), K.format))

\* HasMorePages with the defect of comparing with <=
HasMorePages_Inclusive(data) ==
  \/ Lt(Get(data, K.current), Get(data, K.pages))
  \/ (Get(data, K.current).t = "num" /\ Get(data, K.current) = Get(data, K.pages))

\* data.current < data.pages
HasMorePages(data) == Lt(Get(data, K.current), Get(data, K.pages))

\* the handler's nextCursor: undefined on the last page
NextCursorOf(data, cursorData) ==
  IF HasMorePages(data)
  THEN Str(createCursor(Obj(
         SpreadInto(<<<<K.pageNum, Num(Get(data, K.current).n + 1)>>>>, OwnEntries(cursorData)))))
  ELSE Undefined

\* the ToolResponse; the rendered text is not modelled
ToolResponse(nextCursor) ==
  Obj(AddIf(<<<<K.content, Arr(<<>>)>>>>, Truthy(nextCursor), K.nextCursor, nextCursor))

\* throw new Error(response.msg || "Unknown error")
ResponseError(response) == Err("%", <<OrElse(Get(response, K.msg), Str(MSG_UNKNOWN))>>)

\* reading a property of v throws a TypeError
NoProperties(v) == v.t \in {"undefined", "null"}

\* query_sim_list from the client's answer on
SimListAnswer(call, client, cursorData) ==
  LET prefix == "Failed to query SIM list: %"
      response == call.res.v
      data == Get(response, K.data)
  IN IF ~call.res.ok THEN ToolFailure(prefix, call.res.err, call.sent, client)
     ELSE IF Get(response, K.code) # Num(200)
       THEN ToolFailure(prefix, ResponseError(response), call.sent, client)
     ELSE IF NoProperties(data)
       THEN ToolFailure(prefix, Err("TypeError", <<>>), call.sent, client)
     ELSE ToolOutcome(Return(ToolResponse(NextCursorOf(data, cursorData))), call.sent, client, data)

\* query_sim_list from the cursor step cs and the client lookup gc on
SimListCall(params, cfg, client, resp, cs, gc) ==
  LET prefix == "Failed to query SIM list: %"
  IN IF ~cs.ok THEN ToolFailure(prefix, cs.err, <<>>, client)
     ELSE IF ~gc.res.ok THEN ToolFailure(prefix, gc.res.err, <<>>, gc.client)
     ELSE SimListAnswer(
            querySimList(gc.res.v.logger, QueryParams(cs.v.pageNum, ToolPageSize(params, cfg), params), resp),
            gc.client, cs.v.cursorData)

query_sim_list(params, cfg, client, resp) ==
  SimListCall(params, cfg, client, resp, CursorStep(params), getCMPClient(cfg, client))

\* query_euicc_list from the client's answer on
EuiccListAnswer(call, client, cursorData) ==
  LET prefix == "Failed to query eUICC list: %"
      response == call.res.v
      data == Get(response, K.data)
  IN IF ~call.res.ok THEN ToolFailure(prefix, call.res.err, call.sent, client)
     ELSE IF Get(response, K.code) # Num(200) /\ TypeOf(data) # "object"
       THEN ToolFailure(prefix, ResponseError(response), call.sent, client)
     ELSE IF NoProperties(data)
       THEN ToolFailure(prefix, Err("TypeError", <<>>), call.sent, client)
     ELSE ToolOutcome(Return(ToolResponse(NextCursorOf(data, cursorData))), call.sent, client, data)

\* query_euicc_list from the cursor step cs and the client lookup gc on
EuiccListCall(params, cfg, client, resp, cs, gc) ==
  LET prefix == "Failed to query eUICC list: %"
  IN IF ~cs.ok THEN ToolFailure(prefix, cs.err, <<>>, client)
     ELSE IF ~gc.res.ok THEN ToolFailure(prefix, gc.res.err, <<>>, gc.client)
     ELSE EuiccListAnswer(
            queryEuiccPage(gc.res.v.logger, QueryParams(cs.v.pageNum, ToolPageSize(params, cfg), params), resp),
            gc.client, cs.v.cursorData)

query_euicc_list(params, cfg, client, resp) ==
  EuiccListCall(params, cfg, client, resp, CursorStep(params), getCMPClient(cfg, client))

\* query_sim_detail from the client's answer on
SimDetailAnswer(call, client) ==
  LET prefix == "Failed to query SIM details: %"
      response == call.res.v
      sim == Get(response, K.data)
  IN IF ~call.res.ok THEN ToolFailure(prefix, call.res.err, call.sent, client)
     ELSE IF Get(response, K.code) # Num(200)
       THEN ToolFailure(prefix, ResponseError(response), call.sent, client)
     ELSE IF NoProperties(sim)
       THEN ToolFailure(prefix, Err("TypeError", <<>>), call.sent, client)
     ELSE ToolOutcome(Return(ToolResponse(Undefined)), call.sent, client, Undefined)

SimDetailCall(params, resp, gc) ==
  IF ~gc.res.ok THEN ToolFailure("Failed to query SIM details: %", gc.res.err, <<>>, gc.client)
  ELSE SimDetailAnswer(querySimDetail(gc.res.v.logger, Get(params, K.iccid), resp), gc.client)

query_sim_detail(params, cfg, client, resp) ==
  SimDetailCall(params, resp, getCMPClient(cfg, client))

\* query_sim_usage from the client's answer on
SimUsageAnswer(call, client) ==
  LET prefix == "Failed to query SIM usage: %"
      response == call.res.v
      usage == Get(response, K.data)
  IN IF ~call.res.ok THEN ToolFailure(prefix, call.res.err, call.sent, client)
     ELSE IF Get(response, K.code) # Num(200) /\ TypeOf(usage) # "object"
       THEN ToolFailure(prefix, ResponseError(response), call.sent, client)
     ELSE IF NoProperties(usage)
       THEN ToolFailure(prefix, Err("TypeError", <<>>), call.sent, client)
     ELSE ToolOutcome(Return(ToolResponse(Undefined)), call.sent, client, Undefined)

SimUsageCall(params, resp, gc) ==
  IF ~gc.res.ok THEN ToolFailure("Failed to query SIM usage: %", gc.res.err, <<>>, gc.client)
  ELSE SimUsageAnswer(querySimMonthData(gc.res.v.logger, params, resp), gc.client)

query_sim_usage(params, cfg, client, resp) ==
  SimUsageCall(params, resp, getCMPClient(cfg, client))

StatsDefaultMaxResults == 100
StatsMaxPageSize == 200

\* euicc_profile_stats from the client's answer on; counting and rendering
\* response.data.list is not modelled: it fails only for a list that is no
\* array or holds null, which no response drawn here has
ProfileStatsAnswer(call, client) ==
  LET prefix == "Failed to get eUICC statistics: %"
      response == call.res.v
  IN IF ~call.res.ok THEN ToolFailure(prefix, call.res.err, call.sent, client)
     ELSE IF Get(response, K.code) # Num(200) \/ ~Truthy(Get(response, K.data))
       THEN ToolFailure(prefix, ResponseError(response), call.sent, client)
     ELSE ToolOutcome(Return(ToolResponse(Undefined)), call.sent, client, Undefined)

ProfileStatsCall(params, resp, gc) ==
  IF ~gc.res.ok
    THEN ToolFailure("Failed to get eUICC statistics: %", gc.res.err, <<>>, gc.client)
  ELSE ProfileStatsAnswer(
         queryEuiccPage(gc.res.v.logger,
                        Obj(<<<<K.pageSize,
                                MathMin(Default(Get(params, K.maxResults), Num(StatsDefaultMaxResults)),
                                        Num(StatsMaxPageSize))>>>>),
                        resp),
         gc.client)

euicc_profile_stats(params, cfg, client, resp) ==
  ProfileStatsCall(params, resp, getCMPClient(cfg, client))

---------------------------------------------------------------------------
(* Bounds and inputs *)

MSG_BOOM == <<98, 111, 111, 109>>
CUR_EMPTY == <<101, 51, 48, 61>>
CUR_UNPADDED == <<101, 51, 48>>
CUR_NULL == <<98, 110, 86, 115, 98, 65, 61, 61>>
CUR_JUNK == <<33, 33>>
STR_ICCID == <<56, 57, 52, 52>>
STR_MONTH == <<50, 48, 50, 51, 49, 51>>
STR_BADMONTH == <<50, 48, 50, 51, 45, 48, 49>>
STR_KEY == <<107, 101, 121>>
STR_SECRET == <<115, 51, 99, 114, 51, 116>>

MaxPages == 3
MaxChainCalls == 5
MaxEnvLen == 3
MaxFields == 2
MaxTokenLen == 4

\* all strings over the alphabet S of length at most n
RECURSIVE StringsUpTo(_, _)
StringsUpTo(S, n) ==
  IF n = 0 THEN {<<>>}
  ELSE LET P == StringsUpTo(S, n - 1)
       IN P \cup {Append(q, c) : q \in {x \in P : Len(x) = n - 1}, c \in S}

\* an arguments object: the entries that are present
Args(entries) == Obj(SelectSeq(entries, LAMBDA e : e[2].t # "undefined"))

\* the remote's page container and envelope
PageData(current, pages) ==
  Obj(<<<<K.current, Num(current)>>, <<K.pages, Num(pages)>>,
        <<K.total, Num(pages * 2)>>, <<K.list, Arr(<<>>)>>>>)

Envelope(code, msg, data) == Obj(<<<<K.code, code>>, <<K.msg, Str(msg)>>, <<K.data, data>>>>)

PageResponse(current, pages) ==
  HttpResponse(200, JSONStringify(Envelope(Num(200), MSG_OK, PageData(current, pages))))

Responses ==
  {PageResponse(c, p) : c \in 1..MaxPages, p \in 1..MaxPages}
  \cup { HttpResponse(200, JSONStringify(PageData(1, 2))),
         HttpResponse(200, JSONStringify(Envelope(Num(500), MSG_BOOM, PageData(1, 2)))),
         HttpResponse(200, JSONStringify(Envelope(Num(200), MSG_OK, JNull))),
         HttpResponse(200, JSONStringify(Envelope(Num(200), MSG_OK, Obj(<<>>)))),
         HttpResponse(200, JSONStringify(JNull)),
         HttpResponse(201, JSONStringify(Obj(<<>>))),
         HttpResponse(200, JSONStringify(Obj(<<<<K.code, Num(500)>>, <<K.data, JNull>>>>))),
         HttpResponse(200, JSONStringify(Envelope(Num(500), <<>>, JNull))),
         HttpResponse(200, JSONStringify(Obj(<<<<K.code, JNull>>, <<K.msg, Str(MSG_BOOM)>>>>))),
         HttpResponse(200, JSONStringify(Arr(<<Num(1)>>))),
         HttpResponse(200, JSONStringify(Num(7))),
         HttpResponse(200, JSONStringify(Str(MSG_BOOM))),
         HttpResponse(200, JSONStringify(Bool(TRUE))),
         HttpResponse(200, MSG_BOOM),
         HttpResponse(404, JSONStringify(Envelope(Num(404), MSG_BOOM, JNull))),
         HttpResponse(500, MSG_BOOM),
         TransportFailure }

\* cursors a caller may hold: ones the server issues, and crafted or damaged ones
\* ("e30=" is {}, "e30" lacks its padding, "bnVsbA==" is null, "!!" is no base64)
CursorArgs ==
  {Undefined}
  \cup {Str(createCursor(Obj(<<<<K.pageNum, Num(n)>>>>))) : n \in 2..MaxPages}
  \cup {Str(CUR_EMPTY), Str(CUR_UNPADDED), Str(CUR_NULL), Str(CUR_JUNK)}

PageSizeArgs == {Undefined, Num(0), Num(20), Num(500), Num(5000)}

STR_DETAILED == <<100, 101, 116, 97, 105, 108, 101, 100>>

\* the last two are no filters: format is the tool's own argument and iccid
\* is an argument of other tools
SimListParams ==
  {Args(<<<<K.cursor, c>>, <<K.pageSize, ps>>, <<K.label, l>>, <<K.simState, st>>,
          <<K.format, x[1]>>, <<K.iccid, x[2]>>>>) :
     c \in CursorArgs, ps \in PageSizeArgs, l \in {Undefined, Str(<<97>>)},
     st \in {Undefined, Num(6)},
     x \in {<<Undefined, Undefined>>, <<Str(STR_DETAILED), Str(STR_ICCID)>>}}

ProfileStatsParams == {Args(<<<<K.maxResults, m>>>>) : m \in {Undefined, Num(50), Num(500)}}

EuiccListParams ==
  {Args(<<<<K.cursor, c>>, <<K.pageSize, ps>>, <<K.profileStatus, st>>>>) :
     c \in CursorArgs, ps \in {Undefined, Num(500)},
     st \in {Undefined, Num(0), Num(1), Num(9), Num(10)}}

IccidArgs == {Undefined, Str(<<>>), Str(<<32, 9>>), Str(STR_ICCID), Str(<<32>> \o STR_ICCID \o <<32>>)}

MonthArgs ==
  {Undefined, Str(<<>>), Str(<<32, 32>>), Str(STR_MONTH), Str(<<32>> \o STR_MONTH \o <<10>>),
   Str(STR_BADMONTH), Str(SubSeq(STR_MONTH, 1, 5)), Str(STR_MONTH \o <<49>>)}

SimDetailParams == {Args(<<<<K.iccid, i>>>>) : i \in IccidArgs}

SimUsageParams == {Args(<<<<K.iccid, i>>, <<K.month, m>>>>) : i \in IccidArgs, m \in MonthArgs}

Environment(key, secret, pageSize) ==
  [CMP_API_KEY |-> key, CMP_API_SECRET |-> secret, DEFAULT_PAGE_SIZE |-> pageSize]

ServerEnvs ==
  { Environment(Str(STR_KEY), Str(STR_SECRET), Undefined),
    Environment(Str(STR_KEY), Str(STR_SECRET), Str(<<45, 53>>)),
    Environment(Str(STR_KEY), Undefined, Undefined) }

---------------------------------------------------------------------------
(* The server: tool calls, one at a time, each answered before the next *)

NoCall == [tool |-> "none"]

\* calls are made one at a time
NoneInFlight == [made |-> 0]
ChainOff == [phase |-> "off"]
CodecOff == [phase |-> "off"]

Init ==
  /\ calls = NoneInFlight
  /\ env \in ServerEnvs
  /\ config = LoadConfig(env)
  /\ cmpClient = NoClient
  /\ last = NoCall
  /\ chain = ChainOff
  /\ codec = CodecOff

\* the handler runs to completion; the outcome is what the caller is about to receive
Answer(tool, params, resp, out) ==
  /\ last' = [tool |-> tool, params |-> params, resp |-> resp,
              res |-> out.res, sent |-> out.sent, page |-> out.page]
  /\ cmpClient' = out.client
  /\ UNCHANGED <<env, config, chain, codec, calls>>

CallQuerySimList ==
  /\ last = NoCall
  /\ \E params \in SimListParams, resp \in Responses :
       Answer("query_sim_list", params, resp, query_sim_list(params, config, cmpClient, resp))

CallQueryEuiccList ==
  /\ last = NoCall
  /\ \E params \in EuiccListParams, resp \in Responses :
       Answer("query_euicc_list", params, resp, query_euicc_list(params, config, cmpClient, resp))

CallQuerySimDetail ==
  /\ last = NoCall
  /\ \E params \in SimDetailParams, resp \in Responses :
       Answer("query_sim_detail", params, resp, query_sim_detail(params, config, cmpClient, resp))

CallQuerySimUsage ==
  /\ last = NoCall
  /\ \E params \in SimUsageParams, resp \in Responses :
       Answer("query_sim_usage", params, resp, query_sim_usage(params, config, cmpClient, resp))

\* the response is delivered and the server waits for the next request
Respond ==
  /\ last # NoCall
  /\ last' = NoCall
  /\ UNCHANGED <<env, config, cmpClient, chain, codec, calls>>

CallEuiccProfileStats ==
  /\ last = NoCall
  /\ \E params \in ProfileStatsParams, resp \in Responses :
       Answer("euicc_profile_stats", params, resp,
              euicc_profile_stats(params, config, cmpClient, resp))

Next ==
  \/ CallQuerySimList
  \/ CallQueryEuiccList
  \/ CallQuerySimDetail
  \/ CallQuerySimUsage
  \/ CallEuiccProfileStats
  \/ Respond

Spec == Init /\ [][Next]_vars

---------------------------------------------------------------------------
(* A caller that pages through a listing by feeding back each nextCursor,
   against a remote that holds chain.pages pages and answers every request
   with the page it asks for *)

DefaultEnv == Environment(Str(STR_KEY), Str(STR_SECRET), Undefined)

PagedTools == {"query_sim_list", "query_euicc_list"}

\* the filters of the first call of a chain
ChainFilters(tool) ==
  IF tool = "query_sim_list"
  THEN {Args(<<<<K.label, l>>, <<K.simState, st>>>>) :
          l \in {Undefined, Str(<<97>>)}, st \in {Undefined, Num(6)}}
  ELSE {Args(<<<<K.iccid, i>>, <<K.profileStatus, st>>>>) :
          i \in {Undefined, Str(STR_ICCID)}, st \in {Undefined, Num(5)}}

FilterKeys == {K.label, K.simState, K.iccid, K.profileStatus}

InitChain ==
  /\ calls = NoneInFlight
  /\ env = DefaultEnv
  /\ config = LoadConfig(env)
  /\ cmpClient = NoClient
  /\ last = NoCall
  /\ codec = CodecOff
  /\ \E tool \in PagedTools, n \in 1..MaxPages :
       \E f \in ChainFilters(tool) :
         chain = [phase |-> "chain", tool |-> tool, pages |-> n, filters |-> f,
                  held |-> Undefined, requested |-> <<>>, bodies |-> <<>>, only |-> <<>>]

\* the handler of a paged tool
PagedTool(tool, params, cfg, client, resp) ==
  IF tool = "query_sim_list" THEN query_sim_list(params, cfg, client, resp)
  ELSE query_euicc_list(params, cfg, client, resp)

\* the body of the one request a call dispatched, as the remote reads it
SentBody(sent) == JSONParse(sent[1].body).v

\* the remote served page cur to the call whose outcome is out; the caller keeps
\* the nextCursor of the response
ChainAnswer(out, body, cur, only) ==
  /\ Get(body, K.pageNum) = Num(cur)
  /\ chain' = [chain EXCEPT !.requested = Append(@, cur),
                            !.bodies = Append(@, body),
                            !.only = Append(@, only),
                            !.held = IF out.res.ok THEN Get(out.res.v, K.nextCursor) ELSE Undefined]
  /\ cmpClient' = out.client
  /\ UNCHANGED <<env, config, last, codec, calls>>

ChainCall(params, only) ==
  \E cur \in 1..MaxPages :
    \E out \in {PagedTool(chain.tool, params, config, cmpClient, PageResponse(cur, chain.pages))} :
      /\ out.sent # <<>>
      /\ ChainAnswer(out, SentBody(out.sent), cur, only)

\* the first call: the filters, no cursor
StartChain ==
  /\ chain.phase = "chain"
  /\ chain.requested = <<>>
  /\ ChainCall(chain.filters, FALSE)

\* a later call: the cursor of the previous response, alone or with the filters again
FollowCursor ==
  /\ chain.phase = "chain"
  /\ chain.requested # <<>>
  /\ Len(chain.requested) < MaxChainCalls
  /\ Truthy(chain.held)
  /\ \/ ChainCall(Obj(<<<<K.cursor, chain.held>>>>), TRUE)
     \/ ChainCall(Obj(SetKey(chain.filters.m, K.cursor, chain.held)), FALSE)

NextChain == StartChain \/ FollowCursor

SpecChain == InitChain /\ [][NextChain]_vars

---------------------------------------------------------------------------
(* The cursor codec on its own: records through createCursor and parseCursor,
   and arbitrary tokens through parseCursor *)

\* the values of a flat record: numbers, strings (with characters JSON escapes
\* and characters UTF-8 encodes in two and three bytes), booleans, null
ScalarValues ==
  { Num(0), Num(2), Num(0 - 15), Real(<<49, 46, 53>>),
    Str(<<>>), Str(<<97, 34, 92>>), Str(<<10, 1>>), Str(<<233, 8364>>),
    Bool(TRUE), Bool(FALSE), JNull }

CodecKeys == {K.pageNum, K.label, <<110, 233>>}

\* the entry lists of at most n members with distinct keys
RECURSIVE EntryLists(_)
EntryLists(n) ==
  IF n = 0 THEN {<<>>}
  ELSE LET P == EntryLists(n - 1)
       IN P \cup {Append(m, <<k, v>>) :
                    m \in {x \in P : Len(x) = n - 1}, k \in CodecKeys, v \in ScalarValues}

FlatRecords == {Obj(m) : m \in {x \in EntryLists(MaxFields) :
                                  \A i, j \in 1..Len(x) : x[i][1] = x[j][1] => i = j}}

\* the characters of a token: M Q e 3 0 from the alphabet, the padding '=', and '!'
TokenChars == {77, 81, 101, 51, 48, 61, 33}

Tokens == StringsUpTo(TokenChars, MaxTokenLen)

NoResult == Throw(NoError)

InitCodec ==
  /\ calls = NoneInFlight
  /\ env = DefaultEnv
  /\ config = LoadConfig(env)
  /\ cmpClient = NoClient
  /\ last = NoCall
  /\ chain = ChainOff
  /\ \/ \E r \in FlatRecords : codec = [phase |-> "record", input |-> r, out |-> NoResult]
     \/ \E t \in Tokens : codec = [phase |-> "token", input |-> Str(t), out |-> NoResult]

\* CMPClient.parseCursor(CMPClient.createCursor(r))
RoundTrip ==
  /\ codec.phase = "record"
  /\ codec' = [codec EXCEPT !.phase = "decoded", !.out = parseCursor(createCursor(codec.input))]
  /\ UNCHANGED <<env, config, cmpClient, last, chain, calls>>

\* CMPClient.parseCursor(token)
ParseToken ==
  /\ codec.phase = "token"
  /\ codec' = [codec EXCEPT !.phase = "parsed", !.out = parseCursor(codec.input.s)]
  /\ UNCHANGED <<env, config, cmpClient, last, chain, calls>>

NextCodec == RoundTrip \/ ParseToken

SpecCodec == InitCodec /\ [][NextCodec]_vars

---------------------------------------------------------------------------
(* The client called directly, without the tool layer *)

ClientPageSizes ==
  {Undefined, Num(0 - 5), Num(0), Num(10), Num(999), Num(1000), Num(1001), Num(5000)}

ClientPageNums == {Undefined, Num(1), Num(3)}

SimListOptions ==
  {Args(<<<<K.pageNum, n>>, <<K.pageSize, ps>>, <<K.label, l>>, <<K.simState, st>>>>) :
     n \in ClientPageNums, ps \in ClientPageSizes,
     l \in {Undefined, JNull, Str(<<>>), Str(<<97>>)},
     st \in {Undefined, JNull, Num(0), Num(6)}}

EuiccPageOptions ==
  {Args(<<<<K.pageNum, n>>, <<K.pageSize, ps>>, <<K.profileStatus, st>>>>) :
     n \in ClientPageNums, ps \in {Undefined, Num(10), Num(5000)},
     st \in {Undefined, Num(0 - 1), Num(0), Num(1), Num(5), Num(9), Num(10)}}

\* the operation runs to completion; the client keeps no state between calls
ClientAnswer(op, options, resp, out) ==
  /\ last' = [tool |-> op, params |-> options, resp |-> resp,
              res |-> out.res, sent |-> out.sent, page |-> Undefined]
  /\ UNCHANGED <<env, config, cmpClient, chain, codec, calls>>

ClientQuerySimList ==
  /\ last = NoCall
  /\ \E options \in SimListOptions, resp \in Responses :
       ClientAnswer("querySimList", options, resp, querySimList(NoLogger, options, resp))

ClientQueryEuiccPage ==
  /\ last = NoCall
  /\ \E options \in EuiccPageOptions, resp \in Responses :
       ClientAnswer("queryEuiccPage", options, resp, queryEuiccPage(NoLogger, options, resp))

ClientQuerySimDetail ==
  /\ last = NoCall
  /\ \E iccid \in IccidArgs, resp \in Responses :
       ClientAnswer("querySimDetail", iccid, resp, querySimDetail(NoLogger, iccid, resp))

ClientQuerySimMonthData ==
  /\ last = NoCall
  /\ \E options \in SimUsageParams, resp \in Responses :
       ClientAnswer("querySimMonthData", options, resp, querySimMonthData(NoLogger, options, resp))

NextClient ==
  \/ ClientQuerySimList
  \/ ClientQueryEuiccPage
  \/ ClientQuerySimDetail
  \/ ClientQuerySimMonthData
  \/ Respond

SpecClient == Init /\ [][NextClient]_vars

---------------------------------------------------------------------------
(* Loading the configuration from the environment *)

\* characters of a DEFAULT_PAGE_SIZE value: '-' '0' '5' '9' 'a' and a space
EnvChars == {45, 48, 53, 57, 97, 32}

PageSizeSettings == {Undefined} \cup {Str(s) : s \in StringsUpTo(EnvChars, MaxEnvLen)}

Unloaded == [loaded |-> FALSE]

InitConfig ==
  /\ calls = NoneInFlight
  /\ \E ps \in PageSizeSettings : env = Environment(Str(STR_KEY), Str(STR_SECRET), ps)
  /\ config = Unloaded
  /\ cmpClient = NoClient
  /\ last = NoCall
  /\ chain = ChainOff
  /\ codec = CodecOff

\* the module's top level: const config = { ... }
LoadConfiguration ==
  /\ config = Unloaded
  /\ config' = LoadConfig(env)
  /\ UNCHANGED <<env, cmpClient, last, chain, codec, calls>>

NextConfig == LoadConfiguration

SpecConfig == InitConfig /\ [][NextConfig]_vars

---------------------------------------------------------------------------
(* What the server writes: the lines on stderr and the text of tool responses *)

STR_TRUE == <<116, 114, 117, 101>>
STR_NOT_SET == <<78, 79, 84, 95, 83, 69, 84>>
STR_UNDEFINED == <<117, 110, 100, 101, 102, 105, 110, 101, 100>>
DEFAULT_ENDPOINT == 
  <<104, 116, 116, 112, 115, 58, 47, 47, 99, 109, 112, 46, 97, 99, 99, 101, 108, 101, 114,
    111, 110, 105, 120, 46, 105, 111, 47, 103, 97, 116, 101, 119, 97, 121, 47, 111, 112,
    101, 110, 97, 112, 105>>
DEFAULT_FORMAT == <<99, 111, 109, 112, 97, 99, 116>>

\* s.includes(sub)
Includes(s, sub) ==
  \E i \in 0..(Len(s) - Len(sub)) : SubSeq(s, i + 1, i + Len(sub)) = sub

\* the environment variables the server reports, in the order of the source
EnvKeys == <<"CMP_API_KEY", "CMP_API_SECRET", "CMP_API_ENDPOINT", "DEFAULT_PAGE_SIZE", "DEFAULT_FORMAT">>

\* the name of an environment variable, as text
EnvName(key) ==
  CASE key = "CMP_API_KEY" -> <<67, 77, 80, 95, 65, 80, 73, 95, 75, 69, 89>>
    [] key = "CMP_API_SECRET" -> <<67, 77, 80, 95, 65, 80, 73, 95, 83, 69, 67, 82, 69, 84>>
    [] key = "CMP_API_ENDPOINT" -> <<67, 77, 80, 95, 65, 80, 73, 95, 69, 78, 68, 80, 79, 73, 78, 84>>
    [] key = "DEFAULT_PAGE_SIZE" -> <<68, 69, 70, 65, 85, 76, 84, 95, 80, 65, 71, 69, 95, 83, 73, 90, 69>>
    [] key = "DEFAULT_FORMAT" -> <<68, 69, 70, 65, 85, 76, 84, 95, 70, 79, 82, 77, 65, 84>>

\* key.includes("KEY") || key.includes("SECRET")
Sensitive(key) ==
  Includes(EnvName(key), <<75, 69, 89>>) \/ Includes(EnvName(key), <<83, 69, 67, 82, 69, 84>>)

\* `${before}${value.length}${after}`
LengthOnly(before, value, after) == Str(before \o NumberToString(Len(value.s)) \o after)

\* the masking of main with the defect of showing the value itself
Masked_Clear(key, value) == OrElse(value, Str(STR_NOT_SET))

\* main: what is logged for the variable key holding value
Masked(key, value) ==
  IF Sensitive(key)
    THEN IF Truthy(value) THEN LengthOnly(<<42, 42, 42>>, value, <<32, 99, 104, 97, 114, 115, 42, 42, 42>>)
         ELSE Str(STR_NOT_SET)
    ELSE OrElse(value, Str(STR_NOT_SET))

\* debug_config: what the environment snapshot shows for the variable key
Display(key, value) ==
  IF Sensitive(key)
    THEN IF Truthy(value) THEN LengthOnly(<<42, 42, 42, 80, 82, 69, 83, 69, 78, 84, 40>>, value, <<32, 99, 104, 97, 114, 115, 41, 42, 42, 42>>)
         ELSE Str(STR_NOT_SET)
    ELSE OrElse(value, Str(STR_NOT_SET))

\* debug_config: what the config section shows for apiKey and apiSecret
Found(value) ==
  IF Truthy(value) THEN LengthOnly(<<42, 42, 42, 70, 79, 85, 78, 68, 40>>, value, <<32, 99, 104, 97, 114, 115, 41, 42, 42, 42>>)
  ELSE Str(STR_NOT_SET)

\* config.apiEndpoint and config.defaultFormat
ApiEndpoint(e) == OrElse(e.CMP_API_ENDPOINT, Str(DEFAULT_ENDPOINT))
DefaultFormat(e) == OrElse(e.DEFAULT_FORMAT, Str(DEFAULT_FORMAT))

\* text from the source (Fixed) next to the values put into it (strings)
Fixed(text) == [fixed |-> text]
LogLine(level, tmpl, args) == [level |-> level, tmpl |-> tmpl, args |-> args]
NoText == [tmpl |-> "", args |-> <<>>]
Text(tmpl, args) == [tmpl |-> tmpl, args |-> args]

\* the server's logger: debug lines are written only with ENABLE_DEBUG_LOGGING=true
Written(e, lines) ==
  SelectSeq(lines, LAMBDA l : l.level # "debug" \/ e.ENABLE_DEBUG_LOGGING = Str(STR_TRUE))

\* `${v}`
ToText(v) ==
  CASE v.t = "str" -> v.s
    [] v.t = "undefined" -> STR_UNDEFINED
    [] OTHER -> JSONStringify(v)

\* the values inside the message of the error e, wrapped errors included
RECURSIVE MessageValues(_, _)
MessageValues(e, i) ==
  IF i > Len(e.args) THEN <<>>
  ELSE (IF "tmpl" \in DOMAIN e.args[i] THEN MessageValues(e.args[i], 1)
        ELSE IF e.tmpl = "API Error: Invalid response format - %"
          THEN <<Str(JSONStringify(e.args[i]))>>
        ELSE <<Str(ToText(e.args[i]))>>)
       \o MessageValues(e, i + 1)

\* main(): the start-up lines
mainLog(e) ==
  <<LogLine("info", "Starting CMP MCP Server (local mode)", <<>>)>>
  \o [i \in 1..Len(EnvKeys) |->
        LogLine("info", "  %: %", <<Str(EnvName(EnvKeys[i])), Masked(EnvKeys[i], e[EnvKeys[i]])>>)]
  \o <<LogLine("info", "CMP MCP Server ready on stdio", <<>>)>>

\* toolHandlers.debug_config: the text returned
debug_config(e, cfg) ==
  Text("Configuration Debug Information",
       <<Found(cfg.apiKey), Found(cfg.apiSecret), ApiEndpoint(e),
         Str(ToText(cfg.defaultPageSize)), DefaultFormat(e)>>
       \o [i \in 1..Len(EnvKeys) |-> Display(EnvKeys[i], e[EnvKeys[i]])])

\* this.endpoint = endpoint.replace(/\/$/, "")
StripSlash(s) == IF s # <<>> /\ s[Len(s)] = 47 THEN SubSeq(s, 1, Len(s) - 1) ELSE s

\* makeRequest: the lines it logs for the request sent, answered with resp;
\* parsed is the body read as JSON and attempt the outcome of the try block
RequestLines(endpoint, request, resp, parsed, attempt) ==
  <<LogLine("debug", "Making % request to: %/%",
            <<Fixed(request.method), Str(StripSlash(endpoint.s)), Fixed(request.path)>>),
    LogLine("debug", "Request body: %", <<Str(request.body)>>)>>
  \o (IF resp.kind = "transport" THEN <<>>
      ELSE <<LogLine("debug", "Response status: % %",
                     <<Str(NumberToString(resp.status)), Str(resp.statusText)>>)>>)
  \o (IF resp.kind = "http" /\ ~ResponseOk(resp)
        THEN <<LogLine("error", "Response body: %", <<Str(resp.text)>>)>>
      ELSE <<>>)
  \o (IF resp.kind = "http" /\ ResponseOk(resp) /\ parsed.ok
        THEN <<LogLine("debug", "Response data: %", <<Str(JSONStringify(parsed.v))>>)>>
      ELSE <<>>)
  \o (IF resp.kind = "http" /\ ResponseOk(resp) /\ parsed.ok /\ Truthy(parsed.v)
         /\ TypeOf(parsed.v) = "object" /\ Get(parsed.v, K.code).t = "undefined"
        THEN <<LogLine("warn", "API returned data without standard wrapper, treating as success",
                       <<>>)>>
      ELSE <<>>)
  \o (IF ~attempt.ok THEN <<LogLine("error", "Request failed:", MessageValues(attempt.err, 1))>>
      ELSE <<>>)

\* a tool call: the lines logged by the request handler, getCMPClient, the
\* client and the handler's catch block; before is the cmpClient global at the
\* start and out the outcome of the handler
ToolLines(e, tool, params, before, out, resp) ==
  <<LogLine("debug", "Executing tool: %", <<Fixed(tool), Str(JSONStringify(params))>>)>>
  \o (IF ~Truthy(before) /\ Truthy(out.client)
        THEN <<LogLine("info", "CMP client initialized successfully", <<>>)>>
      ELSE <<>>)
  \o (IF out.sent # <<>>
        THEN RequestLines(ApiEndpoint(e), out.sent[1], resp, JSONParse(resp.text),
                          Attempt(ServerLogger, resp))
      ELSE <<>>)
  \o (IF ~out.res.ok
        THEN <<LogLine("error", "% failed", <<Fixed(tool)>> \o MessageValues(out.res.err, 1))>>
      ELSE <<>>)

\* a tool call: the text the caller receives, the McpError's message on failure;
\* of the remote's data the page header (current, pages, total) and the next
\* cursor are shown
ToolText(out) ==
  IF ~out.res.ok THEN Text("McpError", MessageValues(out.res.err, 1))
  ELSE IF out.page.t = "undefined" THEN Text("record", <<>>)
  ELSE Text("page",
            <<Str(ToText(Get(out.page, K.current))), Str(ToText(Get(out.page, K.pages))),
              Str(ToText(Get(out.page, K.total)))>>
            \o (IF Truthy(Get(out.res.v, K.nextCursor)) THEN <<Get(out.res.v, K.nextCursor)>>
                ELSE <<>>))

---------------------------------------------------------------------------
(* The server from start-up on, with what it writes *)

AuditEnvs ==
  { Environment(key, secret, Undefined)
      @@ [CMP_API_ENDPOINT |-> Undefined, DEFAULT_FORMAT |-> Undefined, ENABLE_DEBUG_LOGGING |-> dbg] :
    key \in {Str(STR_KEY), Undefined}, secret \in {Str(STR_SECRET), Undefined},
    dbg \in {Undefined, Str(STR_TRUE)} }

InitAudit ==
  /\ calls = NoneInFlight
  /\ env \in AuditEnvs
  /\ config = Unloaded
  /\ cmpClient = NoClient
  /\ last = NoCall
  /\ chain = ChainOff
  /\ codec = CodecOff

\* the module's top level and main(): the configuration is read and the
\* start-up lines are logged
StartServer ==
  /\ config = Unloaded
  /\ config' = LoadConfig(env)
  /\ last' = [tool |-> "main", params |-> Undefined, resp |-> TransportFailure,
              res |-> Return(Undefined), sent |-> <<>>, page |-> Undefined,
              log |-> Written(env, mainLog(env)), text |-> NoText]
  /\ UNCHANGED <<env, cmpClient, chain, codec, calls>>

\* the handler runs to completion: what the caller receives and what was logged
AuditAnswer(tool, params, resp, out) ==
  /\ last' = [tool |-> tool, params |-> params, resp |-> resp,
              res |-> out.res, sent |-> out.sent, page |-> out.page,
              log |-> Written(env, ToolLines(env, tool, params, cmpClient, out, resp)),
              text |-> ToolText(out)]
  /\ cmpClient' = out.client
  /\ UNCHANGED <<env, config, chain, codec, calls>>

AuditQuerySimList ==
  /\ config # Unloaded /\ last = NoCall
  /\ \E params \in SimListParams, resp \in Responses :
       AuditAnswer("query_sim_list", params, resp, query_sim_list(params, config, cmpClient, resp))

AuditQueryEuiccList ==
  /\ config # Unloaded /\ last = NoCall
  /\ \E params \in EuiccListParams, resp \in Responses :
       AuditAnswer("query_euicc_list", params, resp,
                   query_euicc_list(params, config, cmpClient, resp))

AuditQuerySimDetail ==
  /\ config # Unloaded /\ last = NoCall
  /\ \E params \in SimDetailParams, resp \in Responses :
       AuditAnswer("query_sim_detail", params, resp,
                   query_sim_detail(params, config, cmpClient, resp))

AuditQuerySimUsage ==
  /\ config # Unloaded /\ last = NoCall
  /\ \E params \in SimUsageParams, resp \in Responses :
       AuditAnswer("query_sim_usage", params, resp,
                   query_sim_usage(params, config, cmpClient, resp))

AuditEuiccProfileStats ==
  /\ config # Unloaded /\ last = NoCall
  /\ \E params \in ProfileStatsParams, resp \in Responses :
       AuditAnswer("euicc_profile_stats", params, resp,
                   euicc_profile_stats(params, config, cmpClient, resp))

\* debug_config reads the configuration and the environment and sends nothing
AuditDebugConfig ==
  /\ config # Unloaded /\ last = NoCall
  /\ last' = [tool |-> "debug_config", params |-> Obj(<<>>), resp |-> TransportFailure,
              res |-> Return(Undefined), sent |-> <<>>, page |-> Undefined,
              log |-> Written(env, <<LogLine("debug", "Executing tool: %",
                                             <<Fixed("debug_config"), Str(JSONStringify(Obj(<<>>)))>>)>>),
              text |-> debug_config(env, config)]
  /\ UNCHANGED <<env, config, cmpClient, chain, codec, calls>>

NextAudit ==
  \/ StartServer
  \/ AuditQuerySimList
  \/ AuditQueryEuiccList
  \/ AuditQuerySimDetail
  \/ AuditQuerySimUsage
  \/ AuditEuiccProfileStats
  \/ AuditDebugConfig
  \/ Respond

SpecAudit == InitAudit /\ [][NextAudit]_vars

---------------------------------------------------------------------------
(* The client with an injected logger *)

LogLevels == {"debug", "warn", "error"}

Loggers ==
  {NoLogger, Logger({}), Logger({"debug"}), Logger({"warn"}), Logger({"error"}), Logger(LogLevels)}

LoggedSimListOptions == {Args(<<<<K.label, l>>>>) : l \in {Undefined, Str(<<97>>)}}

LoggedEuiccPageOptions == {Args(<<<<K.profileStatus, st>>>>) : st \in {Undefined, Num(0), Num(5)}}

\* a client constructed with new CMPClient(...): no logger attached
InitLogger ==
  /\ calls = NoneInFlight
  /\ env = DefaultEnv
  /\ config = LoadConfig(env)
  /\ cmpClient = [NewCMPClient(config) EXCEPT !.logger = NoLogger]
  /\ last = NoCall
  /\ chain = ChainOff
  /\ codec = CodecOff

\* setLogger(logger)
SetLogger ==
  /\ last = NoCall
  /\ \E logger \in Loggers \ {NoLogger} : cmpClient' = [cmpClient EXCEPT !.logger = logger]
  /\ UNCHANGED <<env, config, last, chain, codec, calls>>

LoggedQuerySimList ==
  /\ last = NoCall
  /\ \E options \in LoggedSimListOptions, resp \in Responses :
       ClientAnswer("querySimList", options, resp, querySimList(cmpClient.logger, options, resp))

LoggedQueryEuiccPage ==
  /\ last = NoCall
  /\ \E options \in LoggedEuiccPageOptions, resp \in Responses :
       ClientAnswer("queryEuiccPage", options, resp, queryEuiccPage(cmpClient.logger, options, resp))

LoggedQuerySimDetail ==
  /\ last = NoCall
  /\ \E iccid \in IccidArgs, resp \in Responses :
       ClientAnswer("querySimDetail", iccid, resp, querySimDetail(cmpClient.logger, iccid, resp))

LoggedQuerySimMonthData ==
  /\ last = NoCall
  /\ \E options \in SimUsageParams, resp \in Responses :
       ClientAnswer("querySimMonthData", options, resp,
                    querySimMonthData(cmpClient.logger, options, resp))

NextLogger ==
  \/ SetLogger
  \/ LoggedQuerySimList
  \/ LoggedQueryEuiccPage
  \/ LoggedQuerySimDetail
  \/ LoggedQuerySimMonthData
  \/ Respond

SpecLogger == InitLogger /\ [][NextLogger]_vars

---------------------------------------------------------------------------
(* The request makeRequest hands to fetch, and the packaged client *)

STR_JSON_TYPE == <<97, 112, 112, 108, 105, 99, 97, 116, 105, 111, 110, 47, 106, 115, 111, 110>>
STR_HTTP == <<104, 116, 116, 112, 58>>

\* new CMPClient(appKey, appSecret, endpoint); no logger is set
CMPClient(appKey, appSecret, endpoint) ==
  [t |-> "client", appKey |-> appKey, appSecret |-> appSecret,
   endpoint |-> StripSlash(endpoint), logger |-> NoLogger]

\* createHmac("sha256", key).update(content).digest("hex"), kept as a term
HmacSha256Hex(key, content) == [alg |-> "sha256", key |-> key, content |-> content]

\* generateSignature with the defect of leaving the body out of the signed content
generateSignature_NoBody(client, timestamp, requestBody) ==
  HmacSha256Hex(client.appSecret, client.appKey \o NumberToString(timestamp))

generateSignature(client, timestamp, requestBody) ==
  HmacSha256Hex(client.appSecret, client.appKey \o NumberToString(timestamp) \o requestBody)

\* Math.floor(Date.now() / 1000), now being Date.now()
Timestamp(now) == now \div 1000

getHeaders(client, requestBody, now) ==
  ("Content-Type" :> STR_JSON_TYPE)
  @@ ("APP-Key" :> client.appKey)
  @@ ("Signature" :> generateSignature(client, Timestamp(now), requestBody))
  @@ ("Timestamp" :> NumberToString(Timestamp(now)))

\* resourcePath.startsWith('/') ? resourcePath.slice(1) : resourcePath
StripLeadingSlash(s) == IF s # <<>> /\ s[1] = 47 THEN Tail(s) ELSE s

\* `${baseUrl}/${path}`; baseUrl drops one more trailing slash of this.endpoint
JoinUrl(endpoint, resourcePath) ==
  StripSlash(endpoint) \o <<47>> \o StripLeadingSlash(resourcePath)

\* the index of the first character of s from i on that is no '/'
RECURSIVE SkipSlashes(_, _)
SkipSlashes(s, i) == IF i <= Len(s) /\ s[i] = 47 THEN SkipSlashes(s, i + 1) ELSE i

\* the index of the first '/' of s from i on, Len(s) + 1 if there is none
RECURSIVE NextSlash(_, _)
NextSlash(s, i) == IF i <= Len(s) /\ s[i] # 47 THEN NextSlash(s, i + 1) ELSE i

InvalidUrl == Err("Invalid URL", <<>>)

\* new URL(s).toString() for an http URL of a host and path segments of
\* letters and digits: any number of slashes after the scheme is read as "//",
\* the path keeps its empty segments, an absent path is "/"
UrlHost(s, h0, h1) ==
  IF h0 > Len(s) THEN Throw(InvalidUrl)
  ELSE Return(STR_HTTP \o <<47, 47>> \o SubSeq(s, h0, h1 - 1)
              \o (IF h1 > Len(s) THEN <<47>> ELSE SubSeq(s, h1, Len(s))))

UrlFrom(s, h0) == UrlHost(s, h0, NextSlash(s, h0))

NewURL(s) ==
  IF ~MatchAt(s, 1, STR_HTTP) THEN Throw(InvalidUrl)
  ELSE UrlFrom(s, SkipSlashes(s, Len(STR_HTTP) + 1))

\* url.searchParams.append(key, String(value)) for every entry that is neither
\* undefined nor null; keys and values of letters and digits are not escaped
RECURSIVE SearchParams(_, _, _)
SearchParams(m, i, sep) ==
  IF i > Len(m) THEN <<>>
  ELSE IF m[i][2].t \in {"undefined", "null"} THEN SearchParams(m, i + 1, sep)
  ELSE <<sep>> \o m[i][1] \o <<61>> \o ToText(m[i][2]) \o SearchParams(m, i + 1, 38)

\* url.toString() after the search parameters were appended
RequestUrl(endpoint, resourcePath, params) ==
  IF ~NewURL(JoinUrl(endpoint, resourcePath)).ok THEN NewURL(JoinUrl(endpoint, resourcePath))
  ELSE Return(NewURL(JoinUrl(endpoint, resourcePath)).v
              \o (IF Truthy(params) THEN SearchParams(OwnEntries(params), 1, 63) ELSE <<>>))

\* data ? JSON.stringify(data) : ""
RequestBody(data) == IF Truthy(data) THEN JSONStringify(data) ELSE <<>>

\* fetch(url.toString(), { method, headers, body: requestBody || undefined })
FetchRequest(client, method, url, requestBody, now) ==
  [url |-> url, method |-> method, headers |-> getHeaders(client, requestBody, now),
   body |-> IF requestBody = <<>> THEN Undefined ELSE Str(requestBody)]

\* makeRequest of the TypeScript client with its URL and headers: new URL(...)
\* and getHeaders run before the try block
ClientRequest(client, method, resourcePath, data, params, now, resp) ==
  IF ~RequestUrl(client.endpoint, resourcePath, params).ok
    THEN [res |-> RequestUrl(client.endpoint, resourcePath, params), fetch |-> <<>>]
  ELSE [res |-> makeRequest(client.logger, method, resourcePath, data, resp).res,
        fetch |-> <<FetchRequest(client, method,
                                 RequestUrl(client.endpoint, resourcePath, params).v,
                                 RequestBody(data), now)>>]

\* the packaged client's checks on the body: result.code is read first
PackagedCheckBody(logger, result) ==
  IF NoProperties(result) THEN Throw(Err("TypeError", <<>>))
  ELSE IF Get(result, K.code).t = "undefined"
    THEN IF TypeOf(result) = "object" /\ result.t # "null"
           THEN IF ~log(logger, "warn").ok THEN log(logger, "warn")
                ELSE Return(Obj(<<<<K.code, Num(200)>>, <<K.msg, Str(MSG_OK)>>, <<K.data, result>>>>))
         ELSE Throw(Err("API Error: Invalid response format - %", <<result>>))
  ELSE IF Get(result, K.code) # Num(200)
    THEN Throw(Err("API Error [%]: %",
                   <<Get(result, K.code), OrElse(Get(result, K.msg), Str(MSG_UNKNOWN))>>))
  ELSE Return(result)

PackagedReadBody(logger, parsed) ==
  IF ~parsed.ok THEN Throw(parsed.err)
  ELSE IF ~log(logger, "debug").ok THEN log(logger, "debug")
  ELSE PackagedCheckBody(logger, parsed.v)

\* the packaged client's try block from fetch on
PackagedAttempt(logger, resp) ==
  IF resp.kind = "transport" THEN Throw(Err("fetch failed", <<>>))
  ELSE IF ~log(logger, "debug").ok THEN log(logger, "debug")
  ELSE IF ~ResponseOk(resp)
    THEN IF ~log(logger, "error").ok THEN log(logger, "error")
         ELSE Throw(Err("HTTP Error: % %", <<Num(resp.status), Str(resp.statusText)>>))
  ELSE PackagedReadBody(logger, JSONParse(resp.text))

\* makeRequest of the packaged client: new URL(...), getHeaders and the two
\* debug lines are inside the try block, so every failure is wrapped
PackagedRequest(client, method, resourcePath, data, params, now, resp) ==
  IF ~RequestUrl(client.endpoint, resourcePath, params).ok
    THEN [res |-> RequestCaught(client.logger, RequestUrl(client.endpoint, resourcePath, params)),
          fetch |-> <<>>]
  ELSE IF ~log(client.logger, "debug").ok
    THEN [res |-> RequestCaught(client.logger, log(client.logger, "debug")), fetch |-> <<>>]
  ELSE [res |-> RequestCaught(client.logger, PackagedAttempt(client.logger, resp)),
        fetch |-> <<FetchRequest(client, method,
                                 RequestUrl(client.endpoint, resourcePath, params).v,
                                 RequestBody(data), now)>>]

MaxSlashes == 3

RECURSIVE Slashes(_)
Slashes(n) == IF n = 0 THEN <<>> ELSE <<47>> \o Slashes(n - 1)

STR_HOST == <<104, 116, 116, 112, 58, 47, 47, 104>>
STR_HOST_V1 == <<104, 116, 116, 112, 58, 47, 47, 104, 47, 118, 49>>
STR_NO_SCHEME == <<104>>
STR_SIM_PAGE == <<115, 105, 109, 47, 112, 97, 103, 101>>

\* CMP_API_ENDPOINT values: with and without a path, with trailing slashes,
\* and one that is no URL
RequestEndpoints ==
  {base \o Slashes(n) : base \in {STR_HOST, STR_HOST_V1}, n \in 0..MaxSlashes}
  \cup {STR_NO_SCHEME}

RequestPaths == {Slashes(n) \o STR_SIM_PAGE : n \in 0..MaxSlashes}

\* Date.now() in milliseconds
Clock == {999, 1000, 12345}

RequestData == {Undefined, Str(<<>>), Obj(<<<<K.iccid, Str(STR_ICCID)>>>>)}

RequestParams ==
  {Undefined,
   Obj(<<<<K.iccid, Str(STR_ICCID)>>, <<K.pageNum, JNull>>, <<K.pageSize, Num(10)>>>>)}

InitRequest ==
  /\ calls = NoneInFlight
  /\ env = DefaultEnv
  /\ config = LoadConfig(env)
  /\ cmpClient = NoClient
  /\ last = NoCall
  /\ chain = ChainOff
  /\ codec = CodecOff

\* new CMPClient(config.apiKey, config.apiSecret, endpoint)
Construct ==
  /\ last = NoCall
  /\ \E endpoint \in RequestEndpoints :
       cmpClient' = CMPClient(config.apiKey.s, config.apiSecret.s, endpoint)
  /\ UNCHANGED <<env, config, last, chain, codec, calls>>

\* one makeRequest of both clients on the same arguments, clock and response
RequestAnswer(method, resourcePath, data, params, now, resp) ==
  /\ last' = [tool |-> method, resourcePath |-> resourcePath, data |-> data,
              params |-> params, now |-> now, resp |-> resp,
              res |-> ClientRequest(cmpClient, method, resourcePath, data, params, now, resp).res,
              fetch |-> ClientRequest(cmpClient, method, resourcePath, data, params, now, resp).fetch,
              packaged |-> PackagedRequest(cmpClient, method, resourcePath, data, params, now, resp).res]
  /\ UNCHANGED <<env, config, cmpClient, chain, codec, calls>>

\* get(resourcePath, params)
RequestGet ==
  /\ cmpClient # NoClient /\ last = NoCall
  /\ \E resourcePath \in RequestPaths, params \in RequestParams, now \in Clock, resp \in Responses :
       RequestAnswer("GET", resourcePath, Undefined, params, now, resp)

\* post(resourcePath, data)
RequestPost ==
  /\ cmpClient # NoClient /\ last = NoCall
  /\ \E resourcePath \in RequestPaths, data \in RequestData, now \in Clock, resp \in Responses :
       RequestAnswer("POST", resourcePath, data, Undefined, now, resp)

\* put(resourcePath, data)
RequestPut ==
  /\ cmpClient # NoClient /\ last = NoCall
  /\ \E resourcePath \in RequestPaths, data \in RequestData, now \in Clock, resp \in Responses :
       RequestAnswer("PUT", resourcePath, data, Undefined, now, resp)

\* delete(resourcePath, data)
RequestDelete ==
  /\ cmpClient # NoClient /\ last = NoCall
  /\ \E resourcePath \in RequestPaths, data \in RequestData, now \in Clock, resp \in Responses :
       RequestAnswer("DELETE", resourcePath, data, Undefined, now, resp)

NextRequest ==
  \/ Construct
  \/ RequestGet
  \/ RequestPost
  \/ RequestPut
  \/ RequestDelete
  \/ Respond

SpecRequest == InitRequest /\ [][NextRequest]_vars

---------------------------------------------------------------------------
(* The lookup functions of the client module *)

STR_CONSTRUCTOR == <<99, 111, 110, 115, 116, 114, 117, 99, 116, 111, 114>>
STR_TO_STRING == <<116, 111, 83, 116, 114, 105, 110, 103>>
STR_VALUE_OF == <<118, 97, 108, 117, 101, 79, 102>>
STR_HAS_OWN_PROPERTY == <<104, 97, 115, 79, 119, 110, 80, 114, 111, 112, 101, 114, 116, 121>>
STR_PROTO == <<95, 95, 112, 114, 111, 116, 111, 95, 95>>

\* the properties every object literal inherits from Object.prototype: methods,
\* and __proto__, which reads as Object.prototype itself
InheritedKeys ==
  {STR_CONSTRUCTOR, STR_TO_STRING, STR_VALUE_OF, STR_HAS_OWN_PROPERTY, STR_PROTO}

Inherited(key) ==
  IF key = STR_PROTO THEN [t |-> "prototype"] ELSE [t |-> "function", name |-> key]

\* String(v), as a property key and inside a template literal
StringOf(v) == IF v.t = "num" THEN NumberToString(v.n) ELSE ToText(v)

\* map[key] on an object literal: an own property, else an inherited one
Lookup(map, key) ==
  IF HasKey(map, StringOf(key)) THEN EntryValue(map, StringOf(key))
  ELSE IF StringOf(key) \in InheritedKeys THEN Inherited(StringOf(key))
  ELSE Undefined

\* `${before}${v})`
Unknown(before, v) == Str(before \o StringOf(v) \o <<41>>)

STR_UNKNOWN_STATE == <<85, 110, 107, 110, 111, 119, 110, 32, 115, 116, 97, 116, 117, 115, 32, 40>>
STR_UNKNOWN_STATUS == <<85, 110, 107, 110, 111, 119, 110, 32, 83, 116, 97, 116, 117, 115, 32, 40>>
STR_UNKNOWN_TYPE == <<85, 110, 107, 110, 111, 119, 110, 32, 84, 121, 112, 101, 32, 40>>

stateMap ==
  <<
    <<<<50>>, Str(<<80, 114, 101, 45, 97, 99, 116, 105, 118, 97, 116, 105, 111, 110>>)>>,
    <<<<51>>, Str(<<84, 101, 115, 116>>)>>,
    <<<<52>>, Str(<<83, 105, 108, 101, 110, 116>>)>>,
    <<<<53>>, Str(<<83, 116, 97, 110, 100, 98, 121>>)>>,
    <<<<54>>, Str(<<65, 99, 116, 105, 118, 101>>)>>,
    <<<<55>>, Str(<<83, 104, 117, 116, 100, 111, 119, 110>>)>>,
    <<<<56>>, Str(<<80, 97, 117, 115, 101>>)>>,
    <<<<49, 48>>, Str(<<80, 114, 101, 45, 108, 111, 103, 111, 117, 116>>)>>,
    <<<<49, 49>>, Str(<<76, 111, 103, 111, 117, 116>>)>> >>

getStateName(stateCode) ==
  OrElse(Lookup(stateMap, stateCode), Unknown(STR_UNKNOWN_STATE, stateCode))

statusMap ==
  <<
    <<<<49>>, Str(<<78, 111, 116, 32, 68, 111, 119, 110, 108, 111, 97, 100, 101, 100>>)>>,
    <<<<50>>, Str(<<68, 111, 119, 110, 108, 111, 97, 100, 105, 110, 103>>)>>,
    <<<<51>>, Str(<<68, 111, 119, 110, 108, 111, 97, 100, 101, 100>>)>>,
    <<<<52>>, Str(<<69, 110, 97, 98, 108, 105, 110, 103>>)>>,
    <<<<53>>, Str(<<69, 110, 97, 98, 108, 101, 100>>)>>,
    <<<<54>>, Str(<<68, 105, 115, 97, 98, 108, 105, 110, 103>>)>>,
    <<<<55>>, Str(<<68, 105, 115, 97, 98, 108, 101, 100>>)>>,
    <<<<56>>, Str(<<68, 101, 108, 101, 116, 105, 110, 103>>)>>,
    <<<<57>>, Str(<<68, 101, 108, 101, 116, 101, 100>>)>> >>

getProfileStatusName(status) ==
  OrElse(Lookup(statusMap, status), Unknown(STR_UNKNOWN_STATUS, status))

typeMap ==
  <<
    <<<<48>>, Str(<<84, 101, 115, 116, 32, 80, 114, 111, 102, 105, 108, 101>>)>>,
    <<<<49>>, Str(<<80, 114, 111, 118, 105, 115, 105, 111, 110, 105, 110, 103, 32, 80, 114, 111, 102, 105, 108, 101>>)>>,
    <<<<50>>, Str(<<79, 112, 101, 114, 97, 116, 105, 111, 110, 97, 108, 32, 80, 114, 111, 102, 105, 108, 101>>)>> >>

getProfileTypeName(type) ==
  OrElse(Lookup(typeMap, type), Unknown(STR_UNKNOWN_TYPE, type))

MaxCode == 12

\* state and status codes, the mapped ones and some around them
Codes == {Num(n) : n \in -1..MaxCode}

\* profile types: the mapped ones, unmapped ones, and names of inherited properties
ProfileTypes ==
  {Str(<<48 + n>>) : n \in 0..3}
  \cup {Str(<<>>), Str(<<97>>), Str(STR_CONSTRUCTOR), Str(STR_TO_STRING), Str(STR_PROTO)}

\* no lookup made yet
NoLookup ==
  [tool |-> "lookup", stateCode |-> Undefined, stateName |-> Undefined,
   status |-> Undefined, statusName |-> Undefined, type |-> Undefined, typeName |-> Undefined]

InitLookup ==
  /\ calls = NoneInFlight
  /\ env = DefaultEnv
  /\ config = LoadConfig(env)
  /\ cmpClient = NoClient
  /\ last = NoLookup
  /\ chain = ChainOff
  /\ codec = CodecOff

\* the last argument and result of each function are kept
LookupStateName ==
  /\ \E stateCode \in Codes :
       last' = [last EXCEPT !.stateCode = stateCode, !.stateName = getStateName(stateCode)]
  /\ UNCHANGED <<env, config, cmpClient, chain, codec, calls>>

LookupProfileStatusName ==
  /\ \E status \in Codes :
       last' = [last EXCEPT !.status = status, !.statusName = getProfileStatusName(status)]
  /\ UNCHANGED <<env, config, cmpClient, chain, codec, calls>>

LookupProfileTypeName ==
  /\ \E type \in ProfileTypes :
       last' = [last EXCEPT !.type = type, !.typeName = getProfileTypeName(type)]
  /\ UNCHANGED <<env, config, cmpClient, chain, codec, calls>>

NextLookup ==
  \/ LookupStateName
  \/ LookupProfileStatusName
  \/ LookupProfileTypeName

SpecLookup == InitLookup /\ [][NextLookup]_vars

---------------------------------------------------------------------------
(* Tool calls in flight at once: every handler runs to its first await, which *)
(* is the client's fetch, and is resumed when the response has arrived       *)

MaxCalls == 3

CallIds == 1..MaxCalls

ClientTools ==
  {"query_sim_list", "query_sim_detail", "query_sim_usage", "query_euicc_list",
   "euicc_profile_stats"}

\* an object that `new` has just made and nothing has been told apart from yet
Fresh(obj) == obj.t = "client" /\ "id" \notin DOMAIN obj

\* object identity: the n-th CMPClient constructed is told apart by n
Identify(obj, n) == IF Fresh(obj) THEN obj @@ [id |-> n] ELSE obj

InitConcurrent ==
  /\ env \in {DefaultEnv, Environment(Str(STR_KEY), Undefined, Undefined)}
  /\ config = LoadConfig(env)
  /\ cmpClient = NoClient
  /\ last = NoCall
  /\ chain = ChainOff
  /\ codec = CodecOff
  /\ calls = [made |-> 0,
              tool |-> [c \in CallIds |-> "none"],
              pc |-> [c \in CallIds |-> "idle"],
              got |-> [c \in CallIds |-> 0]]

\* the handler of call c up to its first await: getCMPClient() and the query
\* operation up to fetch, in one turn of the event loop; gc is getCMPClient's
\* outcome
Entered(c, tool, gc) ==
  /\ cmpClient' = Identify(gc.client, calls.made + 1)
  /\ calls' = [made |-> IF gc.res.ok /\ Fresh(gc.res.v) THEN calls.made + 1 ELSE calls.made,
               tool |-> [calls.tool EXCEPT ![c] = tool],
               pc |-> [calls.pc EXCEPT ![c] = IF gc.res.ok THEN "awaiting" ELSE "failed"],
               got |-> [calls.got EXCEPT
                          ![c] = IF gc.res.ok THEN Identify(gc.res.v, calls.made + 1).id ELSE 0]]
  /\ UNCHANGED <<env, config, last, chain, codec>>

Invoke ==
  \E c \in CallIds, tool \in ClientTools :
    /\ calls.pc[c] = "idle"
    /\ Entered(c, tool, getCMPClient(config, cmpClient))

\* the response of call c arrives and its handler runs to the end
Settle ==
  \E c \in CallIds :
    /\ calls.pc[c] = "awaiting"
    /\ calls' = [calls EXCEPT !.pc[c] = "answered"]
    /\ UNCHANGED <<env, config, cmpClient, last, chain, codec>>

\* the caller has the result or the failure of call c and may call again
Finish ==
  \E c \in CallIds :
    /\ calls.pc[c] \in {"answered", "failed"}
    /\ calls' = [calls EXCEPT !.pc[c] = "idle"]
    /\ UNCHANGED <<env, config, cmpClient, last, chain, codec>>

NextConcurrent ==
  \/ Invoke
  \/ Settle
  \/ Finish

SpecConcurrent == InitConcurrent /\ [][NextConcurrent]_vars

---------------------------------------------------------------------------
(* Properties *)

\* the call just answered is a successful call of a paged tool
PagedSuccess == last.tool \in PagedTools /\ last.res.ok

\* current < pages on a page container
PageHasNext(page) ==
  LET c == Get(page, K.current)
      p == Get(page, K.pages)
  IN c.t = "num" /\ p.t = "num" /\ c.n < p.n

\* the nextCursor of the response just returned, decoded
IssuedCursor == parseCursor(Get(last.res.v, K.nextCursor).s)

InvalidCursor == Err("Invalid cursor format", <<>>)

\* C1: after every successful query_sim_list or query_euicc_list call whose page
\* has current < pages, with or without an input cursor, the returned nextCursor
\* decodes to a record whose pageNum is current + 1.
C1_NextCursorAdvances ==
  (PagedSuccess /\ PageHasNext(last.page)) =>
    /\ Get(last.res.v, K.nextCursor).t = "str"
    /\ IssuedCursor.ok
    /\ Get(IssuedCursor.v, K.pageNum) = Num(Get(last.page, K.current).n + 1)

\* a call with the cursor {pageNum: 2} is answered with page 2 of 3 and returns a
\* nextCursor that decodes to pageNum 2 again
C1_CursorRepeatsPage ==
  /\ PagedSuccess
  /\ Get(last.params, K.cursor) = Str(createCursor(Obj(<<<<K.pageNum, Num(2)>>>>)))
  /\ Get(last.page, K.current) = Num(2)
  /\ Get(last.page, K.pages) = Num(3)
  /\ Get(IssuedCursor.v, K.pageNum) = Num(2)

\* C2: in a chain that starts without cursor and then feeds back each nextCursor,
\* against a remote with N pages that serves the page asked for, the k-th request
\* asks for page k, and the response to the N-th request carries no nextCursor.
C2_PagesInOrder ==
  chain.phase = "chain" =>
    /\ \A k \in 1..Len(chain.requested) : chain.requested[k] = k
    /\ Len(chain.requested) >= chain.pages => ~Truthy(chain.held)

\* against a remote with three pages the third request asks for page 2 again
C2_ChainRepeatsPage ==
  /\ chain.phase = "chain"
  /\ chain.pages = 3
  /\ chain.requested = <<1, 2, 2>>
  /\ Truthy(chain.held)

\* C3: a call made with only the cursor of an earlier call sends a request body
\* with the same filter values as the first call of the chain.
C3_FiltersCarried ==
  chain.phase = "chain" =>
    \A k \in 2..Len(chain.bodies) :
      chain.only[k] =>
        \A f \in FilterKeys : Get(chain.bodies[k], f) = Get(chain.bodies[1], f)

\* the first call filtered by label, the cursor-only call that follows sends no label
C3_FilterLost ==
  /\ chain.phase = "chain"
  /\ Len(chain.bodies) = 2
  /\ chain.only[2]
  /\ Get(chain.bodies[1], K.label) = Str(<<97>>)
  /\ Get(chain.bodies[2], K.label) = Undefined

\* C4: a successful query_sim_list or query_euicc_list response carries a
\* nextCursor if and only if the page has current < pages.
C4_NextCursorIffMorePages ==
  PagedSuccess => (HasKey(last.res.v.m, K.nextCursor) <=> PageHasNext(last.page))

\* a successful call on a page that is not the last one, with its nextCursor
C4_MorePagesReached ==
  /\ PagedSuccess
  /\ PageHasNext(last.page)
  /\ HasKey(last.res.v.m, K.nextCursor)

\* C5: for every flat JSON-serializable record r,
\* parseCursor(createCursor(r)) returns r.
C5_CursorRoundTrip ==
  codec.phase = "decoded" => (codec.out.ok /\ codec.out.v = codec.input)

\* a record with a number and a string that holds a quote and a backslash has
\* gone through the codec
C5_EscapedRecordDecoded ==
  /\ codec.phase = "decoded"
  /\ Get(codec.input, K.pageNum) = Num(2)
  /\ Get(codec.input, K.label) = Str(<<97, 34, 92>>)
  /\ codec.out.ok

\* A-Z a-z 0-9 + /
Base64Alphabet == (65..90) \cup (97..122) \cup (48..57) \cup {43, 47}

\* base64 as RFC 4648 writes it: groups of four characters of the alphabet, the
\* last group padded with at most two '='
WellFormedBase64(t) ==
  /\ Len(t) % 4 = 0
  /\ \E pad \in 0..2 :
       /\ pad <= Len(t)
       /\ \A i \in 1..(Len(t) - pad) : t[i] \in Base64Alphabet
       /\ \A i \in (Len(t) - pad + 1)..Len(t) : t[i] = 61

\* the position of the first '=' of t, Len(t) + 1 if there is none
FirstPad(t) ==
  IF \E i \in 1..Len(t) : t[i] = 61
  THEN CHOOSE i \in 1..Len(t) : t[i] = 61 /\ \A j \in 1..(i - 1) : t[j] # 61
  ELSE Len(t) + 1

\* the characters of the alphabet before the first '='
LegalPrefix(t) == SelectSeq(SubSeq(t, 1, FirstPad(t) - 1), LAMBDA c : c \in Base64Alphabet)

\* the well-formed token with the content of t: a lone last character encodes no
\* byte and is dropped, a last group of two or three is padded
Repaired(t) ==
  LET x == LegalPrefix(t)
      r == Len(x) % 4
  IN IF r = 0 THEN x
     ELSE IF r = 1 THEN SubSeq(x, 1, Len(x) - 1)
     ELSE IF r = 2 THEN x \o <<61, 61>>
     ELSE x \o <<61>>

LocalFailures ==
  { "ICCID cannot be empty", "Month cannot be empty",
    "Month format must be yyyyMM (e.g., 202301)",
    "Profile status must be between 1-9 (see ProfileStatus enum)",
    "Invalid cursor format" }

\* the tool call just answered failed with a ValidationError or with InvalidCursor
FailedLocally ==
  /\ last # NoCall
  /\ ~last.res.ok
  /\ last.res.err.args # <<>>
  /\ last.res.err.args[1].tmpl \in LocalFailures

\* C7: a call that fails with a ValidationError (blank ICCID, blank or malformed
\* month, out-of-range profile status) or with InvalidCursor has dispatched no
\* HTTP request.
C7_LocalFailuresSendNothing == FailedLocally => last.sent = <<>>

\* query_euicc_list has failed on an out-of-range profile status
C7_ProfileStatusRejected ==
  /\ FailedLocally
  /\ last.tool = "query_euicc_list"
  /\ last.res.err.args[1].tmpl = "Profile status must be between 1-9 (see ProfileStatus enum)"
  /\ Get(last.params, K.profileStatus) = Num(10)

\* C8: whatever pageSize the caller passes to query_sim_list or query_euicc_list,
\* the pageSize of the request sent upstream is at most 50.
C8_ToolPageSizeCapped ==
  (last.tool \in PagedTools /\ last.sent # <<>>) =>
    /\ Get(SentBody(last.sent), K.pageSize).t = "num"
    /\ Get(SentBody(last.sent), K.pageSize).n <= 50

\* a call with pageSize 500 has sent pageSize 500 upstream
C8_OversizedPageSent ==
  /\ last.tool \in PagedTools
  /\ last.sent # <<>>
  /\ Get(last.params, K.pageSize) = Num(500)
  /\ Get(SentBody(last.sent), K.pageSize) = Num(500)

\* the request just dispatched by a paged client operation
ClientPaged == last.tool \in {"querySimList", "queryEuiccPage"} /\ last.sent # <<>>

\* C9: querySimList and queryEuiccPage send pageSize = min(requested, 1000),
\* never more than 1000; with no page size given pageSize is 10, and with no
\* page number given pageNum is 1.
C9_ClientPageSizeCapped ==
  ClientPaged =>
    LET asked == Get(last.params, K.pageSize)
        body == SentBody(last.sent)
    IN /\ Get(body, K.pageSize).t = "num"
       /\ Get(body, K.pageSize).n <= 1000
       /\ asked.t = "num" =>
            Get(body, K.pageSize).n = (IF asked.n < 1000 THEN asked.n ELSE 1000)
       /\ asked.t = "undefined" => Get(body, K.pageSize) = Num(10)
       /\ Get(last.params, K.pageNum).t = "undefined" => Get(body, K.pageNum) = Num(1)

\* querySimList asked for 5000 records has sent pageSize 1000
C9_LargeRequestCapped ==
  /\ ClientPaged
  /\ last.tool = "querySimList"
  /\ Get(last.params, K.pageSize) = Num(5000)
  /\ Get(SentBody(last.sent), K.pageSize) = Num(1000)

\* C10: for every value of DEFAULT_PAGE_SIZE (absent, non-numeric, zero,
\* negative, larger than 50) config.defaultPageSize is an integer from 1 to 50.
C10_DefaultPageSizeInRange ==
  config # Unloaded =>
    /\ config.defaultPageSize.t = "num"
    /\ config.defaultPageSize.n \in 1..50

\* DEFAULT_PAGE_SIZE = "-5" has been loaded as -5
C10_NegativeDefaultLoaded ==
  /\ config # Unloaded
  /\ env.DEFAULT_PAGE_SIZE = Str(<<45, 53>>)
  /\ config.defaultPageSize = Num(0 - 5)

\* The optional filters of querySimList
SimListFilters ==
  {K.enterpriseDataPlan, K.expirationTimeStart, K.expirationTimeEnd, K.iccidStart,
   K.iccidEnd, K.label, K.simState, K.simType}

\* a filter value that is absent (undefined or null) or empty
AbsentOrEmpty(v) == v.t \in {"undefined", "null"} \/ v = Str(<<>>)

SimListSent == last.tool = "querySimList" /\ last.sent # <<>>

\* C11: the body sent by querySimList holds a filter only if the caller gave it
\* a defined, non-empty value (and then holds that value); an undefined, null
\* or empty filter is left out, and with no filter given the body has exactly
\* the keys pageNum and pageSize.
C11_OnlyDefinedFiltersSent ==
  SimListSent =>
    LET body == SentBody(last.sent)
    IN /\ \A k \in SimListFilters :
            HasKey(body.m, k) =>
              /\ ~AbsentOrEmpty(Get(last.params, k))
              /\ Get(body, k) = Get(last.params, k)
       /\ (\A k \in SimListFilters : AbsentOrEmpty(Get(last.params, k))) =>
            [i \in 1..Len(body.m) |-> body.m[i][1]] = <<K.pageNum, K.pageSize>>

\* querySimList called with simState null has sent a body with the key simState
\* holding null
C11_NullStateSent ==
  /\ SimListSent
  /\ Get(last.params, K.simState) = JNull
  /\ HasKey(SentBody(last.sent).m, K.simState)
  /\ Get(SentBody(last.sent), K.simState) = JNull

\* the text s without its leading and trailing white space
Core(s) ==
  LET inked == {i \in 1..Len(s) : s[i] \notin WhiteSpace}
  IN IF inked = {} THEN <<>>
     ELSE SubSeq(s, CHOOSE i \in inked : \A j \in inked : i <= j,
                    CHOOSE i \in inked : \A j \in inked : j <= i)

\* an argument that is absent, empty or all white space
EmptyText(v) == v.t = "undefined" \/ (v.t = "str" /\ \A i \in 1..Len(v.s) : v.s[i] \in WhiteSpace)

\* yyyyMM: exactly six decimal digits
YearMonth(s) == Len(s) = 6 /\ \A i \in 1..Len(s) : s[i] \in 48..57

ValidationFailures ==
  { "ICCID cannot be empty", "Month cannot be empty",
    "Month format must be yyyyMM (e.g., 202301)",
    "Profile status must be between 1-9 (see ProfileStatus enum)" }

\* the client operation just answered failed with a ValidationError
ValidationError == ~last.res.ok /\ last.res.err.tmpl \in ValidationFailures

\* the client operation just answered sent exactly one POST to path with body
OnePost(path, body) ==
  /\ Len(last.sent) = 1
  /\ last.sent[1].method = "POST"
  /\ last.sent[1].path = path
  /\ SentBody(last.sent) = body

\* C12: querySimMonthData fails with a ValidationError, sending nothing, exactly
\* when the ICCID is empty or all white space, or the month is empty or all
\* white space, or the trimmed month is not six digits; otherwise it sends one
\* POST to /sim/queryMonthData with the trimmed iccid and the trimmed month.
C12_MonthDataValidation ==
  last.tool = "querySimMonthData" =>
    LET iccid == Get(last.params, K.iccid)
        month == Get(last.params, K.month)
    IN IF EmptyText(iccid) \/ EmptyText(month) \/ ~YearMonth(Core(month.s))
         THEN ValidationError /\ last.sent = <<>>
         ELSE /\ ~ValidationError
              /\ OnePost("/sim/queryMonthData",
                         Obj(<<<<K.iccid, Str(Core(iccid.s))>>, <<K.month, Str(Core(month.s))>>>>))

\* querySimMonthData given the month " 202313\n" (no such calendar month) and
\* the ICCID " 8944 " has sent the request with both trimmed
C12_Month13Sent ==
  /\ last.tool = "querySimMonthData"
  /\ Get(last.params, K.month) = Str(<<32>> \o STR_MONTH \o <<10>>)
  /\ Get(last.params, K.iccid) = Str(<<32>> \o STR_ICCID \o <<32>>)
  /\ OnePost("/sim/queryMonthData", Obj(<<<<K.iccid, Str(STR_ICCID)>>, <<K.month, Str(STR_MONTH)>>>>))

\* C13: querySimDetail fails with a ValidationError, sending nothing, for an
\* ICCID that is empty or all white space, and for any other ICCID sends one
\* POST to /sim/detail whose body is exactly { iccid: the trimmed ICCID }.
C13_SimDetailValidation ==
  last.tool = "querySimDetail" =>
    IF EmptyText(last.params)
      THEN ValidationError /\ last.res.err.tmpl = "ICCID cannot be empty" /\ last.sent = <<>>
      ELSE ~ValidationError /\ OnePost("/sim/detail", Obj(<<<<K.iccid, Str(Core(last.params.s))>>>>))

\* querySimDetail given " 8944 " has sent { iccid: "8944" }
C13_TrimmedIccidSent ==
  /\ last.tool = "querySimDetail"
  /\ last.params = Str(<<32>> \o STR_ICCID \o <<32>>)
  /\ OnePost("/sim/detail", Obj(<<<<K.iccid, Str(STR_ICCID)>>>>))

\* C14: queryEuiccPage fails with a ValidationError exactly when profileStatus
\* is given and lies outside 1..9 (0 and 10 fail, 1 and 9 pass); without
\* profileStatus validation always passes.
C14_ProfileStatusRange ==
  last.tool = "queryEuiccPage" =>
    LET profileStatus == Get(last.params, K.profileStatus)
    IN /\ ValidationError <=>
            (profileStatus.t = "num" /\ profileStatus.n \notin 1..9)
       /\ ValidationError => last.sent = <<>>
       /\ ~ValidationError => Len(last.sent) = 1

\* queryEuiccPage has been called with profileStatus 9 and has sent it
C14_UpperEndPasses ==
  /\ last.tool = "queryEuiccPage"
  /\ Get(last.params, K.profileStatus) = Num(9)
  /\ Len(last.sent) = 1
  /\ Get(SentBody(last.sent), K.profileStatus) = Num(9)

\* the client operation just answered has dispatched its request
Requested == last # NoCall /\ last.sent # <<>>

\* the request was answered with a status inside / outside the success range
HttpSuccess == Requested /\ last.resp.kind = "http" /\ last.resp.status \in 200..299
HttpFailure == Requested /\ last.resp.kind = "http" /\ last.resp.status \notin 200..299

\* the response text read as JSON
ResponseJson == JSONParse(last.resp.text)

JsonObject(p) == p.ok /\ p.v.t = "obj"

\* the operation failed in makeRequest; Cause is the error makeRequest wrapped
RequestFailed == ~last.res.ok /\ last.res.err.tmpl = "Request failed: %"
Cause == last.res.err.args[1]

\* the error e, or an error it wraps, holds the value v
RECURSIVE Carries(_, _)
Carries(e, v) ==
  \E i \in 1..Len(e.args) :
    IF "tmpl" \in DOMAIN e.args[i] THEN Carries(e.args[i], v) ELSE e.args[i] = v

\* C15: when the response has a success status and its body is a JSON object
\* without a code field, the operation returns { code: 200, msg: "OK",
\* data: the body } and raises no error.
C15_BareBodyWrapped ==
  (HttpSuccess /\ JsonObject(ResponseJson) /\ ~HasKey(ResponseJson.v.m, K.code)) =>
    last.res = Return(Obj(<<<<K.code, Num(200)>>, <<K.msg, Str(<<79, 75>>)>>,
                            <<K.data, ResponseJson.v>>>>))

\* a 201 response with the body {} has been returned as the envelope with data {}
C15_EmptyObjectWrapped ==
  /\ HttpSuccess
  /\ last.resp.status = 201
  /\ ResponseJson = Return(Obj(<<>>))
  /\ last.res.ok
  /\ Get(last.res.v, K.code) = Num(200)
  /\ Get(last.res.v, K.data) = Obj(<<>>)

\* the response has a success status and a JSON object body whose code field
\* is not 200
CodeNot200 ==
  /\ HttpSuccess
  /\ JsonObject(ResponseJson)
  /\ HasKey(ResponseJson.v.m, K.code)
  /\ Get(ResponseJson.v, K.code) # Num(200)

\* the operation failed with the ApiError holding code and msg
ApiError(code, msg) == RequestFailed /\ Cause = Err("API Error [%]: %", <<code, msg>>)

\* C16 as stated: a body with code other than 200 fails with an ApiError that
\* holds the code and the msg field, or "Unknown error" when the body has no
\* msg field.
C16_ApiErrorCarriesMsg ==
  CodeNot200 =>
    ApiError(Get(ResponseJson.v, K.code),
             IF HasKey(ResponseJson.v.m, K.msg) THEN Get(ResponseJson.v, K.msg)
             ELSE Str(MSG_UNKNOWN))

\* C16 amended: a body with code other than 200 is never returned; the
\* operation fails with an ApiError that holds the code and the msg field, or
\* "Unknown error" when msg is absent, null or empty.
C16_ApiErrorCarriesMsgOrPlaceholder ==
  CodeNot200 =>
    ApiError(Get(ResponseJson.v, K.code),
             IF AbsentOrEmpty(Get(ResponseJson.v, K.msg)) THEN Str(MSG_UNKNOWN)
             ELSE Get(ResponseJson.v, K.msg))

\* the body { code: 500, msg: "", data: null } has failed with the ApiError
\* holding 500 and "Unknown error"
C16_EmptyMsgReplaced ==
  /\ CodeNot200
  /\ Get(ResponseJson.v, K.msg) = Str(<<>>)
  /\ ApiError(Num(500), Str(MSG_UNKNOWN))

\* C17: a response with a status outside the success range fails with an
\* HttpError that holds the status code, the status text and the text of the
\* response body.
C17_HttpErrorCarriesBody ==
  HttpFailure =>
    /\ RequestFailed
    /\ Cause.tmpl = "HTTP Error: % %"
    /\ Carries(last.res.err, Num(last.resp.status))
    /\ Carries(last.res.err, Str(last.resp.statusText))
    /\ Carries(last.res.err, Str(last.resp.text))

\* the response 500 Internal Server Error with the body "boom" has failed with
\* an HttpError holding 500 and the status text, but not the body text
C17_BodyTextDropped ==
  /\ HttpFailure
  /\ last.resp.status = 500
  /\ last.resp.text = MSG_BOOM
  /\ RequestFailed
  /\ Cause = Err("HTTP Error: % %", <<Num(500), Str(StatusText(500))>>)
  /\ ~Carries(last.res.err, Str(MSG_BOOM))

\* C18: a response with a success status whose body is not a JSON object
\* (null, a number, a string, a boolean, an array, or text that is not JSON)
\* fails with InvalidResponseFormat and returns no envelope.
C18_NonObjectRejected ==
  (HttpSuccess /\ ~JsonObject(ResponseJson)) =>
    /\ RequestFailed
    /\ Cause.tmpl \in {"API Error: Invalid response format - %", "SyntaxError"}

\* the body [1] has been returned as the envelope { code: 200, msg: "OK", data: [1] }
C18_ArrayReturned ==
  /\ HttpSuccess
  /\ ResponseJson = Return(Arr(<<Num(1)>>))
  /\ last.res = Return(Obj(<<<<K.code, Num(200)>>, <<K.msg, Str(MSG_OK)>>,
                             <<K.data, Arr(<<Num(1)>>)>>>>))

\* the outcome of the operation just answered had the client no logger attached
Unlogged ==
  CASE last.tool = "querySimList" -> querySimList(NoLogger, last.params, last.resp)
    [] last.tool = "queryEuiccPage" -> queryEuiccPage(NoLogger, last.params, last.resp)
    [] last.tool = "querySimDetail" -> querySimDetail(NoLogger, last.params, last.resp)
    [] last.tool = "querySimMonthData" -> querySimMonthData(NoLogger, last.params, last.resp)

\* C19: whatever logger is attached (none, a silent one, one whose methods
\* throw), a query operation returns the same result, or fails with the same
\* failure, as it does with no logger attached.
C19_LoggerNeverAltersResult == last # NoCall => last.res = Unlogged.res

\* with a logger whose debug method throws, an operation that succeeds without
\* logger has failed with the logger's error before sending its request
C19_ThrowingLoggerFailedRequest ==
  /\ last # NoCall
  /\ cmpClient.logger = Logger({"debug"})
  /\ Unlogged.res.ok
  /\ last.res = Throw(Err("logger failed", <<>>))
  /\ last.sent = <<>>

\* the value v, one of the values written, holds the text secret
Holds(v, secret) == "t" \in DOMAIN v /\ v.t = "str" /\ Includes(v.s, secret)

\* the step just taken has written secret to a log line or to the text returned
Shown(secret) ==
  \/ \E i \in 1..Len(last.log) :
       \E j \in 1..Len(last.log[i].args) : Holds(last.log[i].args[j], secret)
  \/ \E j \in 1..Len(last.text.args) : Holds(last.text.args[j], secret)

\* C20: at start-up and in every tool call, debug_config included, no log line
\* and no text returned to the caller holds the value of CMP_API_SECRET.
C20_SecretNeverShown ==
  (last # NoCall /\ env.CMP_API_SECRET.t = "str") => ~Shown(env.CMP_API_SECRET.s)

\* debug_config, with the secret set, has answered with the length of the
\* secret in place of its value, in the config section and in the snapshot
C20_DebugConfigMasked ==
  /\ last.tool = "debug_config"
  /\ env.CMP_API_SECRET = Str(STR_SECRET)
  /\ last.text.args[2] = Str(<<42, 42, 42, 70, 79, 85, 78, 68, 40, 54, 32, 99, 104, 97, 114, 115, 41, 42, 42, 42>>)
  /\ last.text.args[7] = Str(<<42, 42, 42, 80, 82, 69, 83, 69, 78, 84, 40, 54, 32, 99, 104, 97, 114, 115, 41, 42, 42, 42>>)
\* C21: a tool call dispatches at most one HTTP request, whether it succeeds
\* or fails; a failed request is never dispatched again
C21_AtMostOneRequest == last # NoCall => Len(last.sent) <= 1

\* a call of euicc_profile_stats whose only request failed in transport
C21_FailedRequestSentOnce ==
  /\ last # NoCall
  /\ last.tool = "euicc_profile_stats"
  /\ last.resp = TransportFailure
  /\ ~last.res.ok
  /\ Len(last.sent) = 1

\* the requests the call handed to fetch
Dispatched == IF last = NoCall THEN <<>> ELSE last.fetch

\* the body string on the wire: the empty string when fetch was given no body
Transmitted(request) == IF request.body = Undefined THEN <<>> ELSE request.body.s

\* C22: every dispatched request carries exactly the headers Content-Type
\* (application/json), APP-Key (the appKey), Signature and Timestamp; Timestamp
\* is a decimal number, and Signature is the HMAC-SHA256 under appSecret of
\* appKey, then the Timestamp header's value, then the body string transmitted
\* (the empty string when no body is sent).
C22_RequestSigned ==
  \A i \in 1..Len(Dispatched) :
    LET headers == Dispatched[i].headers
    IN /\ DOMAIN headers = {"Content-Type", "APP-Key", "Signature", "Timestamp"}
       /\ headers["Content-Type"] = STR_JSON_TYPE
       /\ headers["APP-Key"] = config.apiKey.s
       /\ headers["Timestamp"] # <<>>
       /\ \A j \in 1..Len(headers["Timestamp"]) : headers["Timestamp"][j] \in 48..57
       /\ headers["Signature"] =
            HmacSha256Hex(config.apiSecret.s,
                          config.apiKey.s \o headers["Timestamp"] \o Transmitted(Dispatched[i]))

\* a POST with a body was signed at second 12 and dispatched
C22_BodySigned ==
  /\ Len(Dispatched) = 1
  /\ last.tool = "POST"
  /\ Dispatched[1].body = Str(JSONStringify(Obj(<<<<K.iccid, Str(STR_ICCID)>>>>)))
  /\ Dispatched[1].headers["Timestamp"] = <<49, 50>>

\* the label a lookup function is to return: the table's entry for a mapped
\* input, the "Unknown" text around the input otherwise
Label(map, before, v) ==
  IF HasKey(map, StringOf(v)) THEN EntryValue(map, StringOf(v)) ELSE Unknown(before, v)

\* C23: each lookup function returns, for every input, the mapped label if the
\* input is mapped and otherwise the text "Unknown status (<code>)", "Unknown
\* Status (<code>)" or "Unknown Type (<type>)" holding the input.
C23_LookupsTotal ==
  /\ last.stateCode # Undefined =>
       last.stateName = Label(stateMap, STR_UNKNOWN_STATE, last.stateCode)
  /\ last.status # Undefined =>
       last.statusName = Label(statusMap, STR_UNKNOWN_STATUS, last.status)
  /\ last.type # Undefined =>
       last.typeName = Label(typeMap, STR_UNKNOWN_TYPE, last.type)

\* getProfileTypeName("constructor") returned a function, no string
C23_InheritedPropertyReturned ==
  /\ last.type = Str(STR_CONSTRUCTOR)
  /\ last.typeName.t = "function"
  /\ last.stateName = Str(STR_UNKNOWN_STATE \o <<49, 50, 41>>)

\* s without its trailing slashes
RECURSIVE NoTrailingSlash(_)
NoTrailingSlash(s) ==
  IF s # <<>> /\ s[Len(s)] = 47 THEN NoTrailingSlash(SubSeq(s, 1, Len(s) - 1)) ELSE s

\* s without its leading slashes
RECURSIVE NoLeadingSlash(_)
NoLeadingSlash(s) == IF s # <<>> /\ s[1] = 47 THEN NoLeadingSlash(Tail(s)) ELSE s

\* the query string of the request
Query(params) == IF Truthy(params) THEN SearchParams(OwnEntries(params), 1, 63) ELSE <<>>

\* C24: the URL of a dispatched request is the endpoint without its trailing
\* slashes, one '/', and the resource path without its leading slashes (then
\* the query string), however many slashes the endpoint ends with and the
\* path starts with.
C24_OneSlashBetween ==
  \A i \in 1..Len(Dispatched) :
    Dispatched[i].url =
      NoTrailingSlash(cmpClient.endpoint) \o <<47>> \o NoLeadingSlash(last.resourcePath)
      \o Query(last.params)

\* an endpoint given with three trailing slashes: two slashes stand between
\* the host and the path of the URL requested
C24_TwoSlashesBetween ==
  /\ Len(Dispatched) = 1
  /\ cmpClient.endpoint = STR_HOST \o <<47, 47>>
  /\ last.resourcePath = <<47>> \o STR_SIM_PAGE
  /\ Dispatched[1].url = STR_HOST \o <<47, 47>> \o STR_SIM_PAGE

DataTools == {"query_sim_list", "query_sim_detail", "query_sim_usage", "query_euicc_list"}

\* the request of a tool call was answered with a success status and an
\* envelope whose code is not 200 and whose data is a non-null object
RejectedWithData ==
  /\ HttpSuccess
  /\ JsonObject(ResponseJson)
  /\ Get(ResponseJson.v, K.code) \notin {Undefined, Num(200)}
  /\ Get(ResponseJson.v, K.data).t \in {"obj", "arr"}

\* C25 as stated: for a response with a success status, a code other than 200
\* and a non-null object as data, query_sim_usage and query_euicc_list return
\* a result while query_sim_list and query_sim_detail fail.
C25_UsageAndEuiccListAccept ==
  RejectedWithData /\ last.tool \in DataTools =>
    (last.res.ok <=> last.tool \in {"query_sim_usage", "query_euicc_list"})

\* C25, amended: for such a response all four tools fail alike, with the API
\* error of the client that carries the remote's code; none returns a result.
C25_AllToolsReject ==
  RejectedWithData /\ last.tool \in DataTools =>
    /\ ~last.res.ok
    /\ Carries(last.res.err, Get(ResponseJson.v, K.code))
    /\ \E e \in {last.res.err.args[1]} :
         "tmpl" \in DOMAIN e /\ e.tmpl = "Request failed: %"
         /\ e.args[1].tmpl = "API Error [%]: %"

\* query_sim_usage was answered with code 500 and a page as data, and failed
C25_UsageRejected ==
  /\ RejectedWithData
  /\ last.tool = "query_sim_usage"
  /\ ~last.res.ok

\* C26: however the tool calls interleave, at most one CMPClient is ever
\* constructed, the server holds that one, and every call that obtained a
\* client obtained that one.
C26_OneClient ==
  /\ calls.made <= 1
  /\ cmpClient # NoClient => cmpClient.id = 1
  /\ \A c \in CallIds : calls.pc[c] \in {"awaiting", "answered"} => calls.got[c] = 1

\* two calls await their responses at once, and a third has been answered;
\* all three hold the one client
C26_CallsShareClient ==
  /\ calls.made = 1
  /\ calls.pc[1] = "awaiting" /\ calls.pc[2] = "awaiting" /\ calls.pc[3] = "answered"
  /\ calls.tool[1] # calls.tool[2]
  /\ \A c \in CallIds : calls.got[c] = 1

CredentialsMissing == ~Truthy(env.CMP_API_KEY) \/ ~Truthy(env.CMP_API_SECRET)

\* the call failed in getCMPClient, for want of credentials
CredentialsError ==
  /\ ~last.res.ok
  /\ "tmpl" \in DOMAIN last.res.err.args[1]
  /\ last.res.err.args[1].tmpl = "CMP API credentials not configured"

\* the call failed on its cursor argument
CursorError ==
  /\ ~last.res.ok
  /\ "tmpl" \in DOMAIN last.res.err.args[1]
  /\ last.res.err.args[1].tmpl \in {"Invalid cursor format", "TypeError"}

\* start-up and debug_config succeed, no client exists and nothing is sent
StartsWithoutCredentials ==
  /\ cmpClient = NoClient
  /\ last # NoCall =>
       /\ last.sent = <<>>
       /\ last.tool \in {"main", "debug_config"} => last.res.ok

\* C27 as stated: with the key or the secret missing, start-up and debug_config
\* succeed, and every call of a tool that uses the client fails with the
\* credentials error, no client being constructed and no request dispatched.
C27_CredentialsErrorAlways ==
  CredentialsMissing =>
    /\ StartsWithoutCredentials
    /\ last # NoCall /\ last.tool \in ClientTools => CredentialsError

\* C27, amended: as stated, but a call of query_sim_list or query_euicc_list
\* whose cursor is rejected fails on the cursor, which is read before the
\* client is asked for.
C27_CredentialCheckDeferred ==
  CredentialsMissing =>
    /\ StartsWithoutCredentials
    /\ last # NoCall /\ last.tool \in ClientTools =>
         \/ CredentialsError
         \/ /\ last.tool \in {"query_sim_list", "query_euicc_list"}
            /\ Truthy(Get(last.params, K.cursor))
            /\ CursorError

\* without CMP_API_KEY the server started and query_sim_usage was refused
C27_UsageRefusedWithoutKey ==
  /\ ~Truthy(env.CMP_API_KEY)
  /\ last # NoCall
  /\ last.tool = "query_sim_usage"
  /\ CredentialsError
  /\ last.sent = <<>>
  /\ cmpClient = NoClient

\* the keys of the body of POST /sim/page
SimPageKeys == {K.pageNum, K.pageSize} \cup SimListFilters

\* the keys of the JSON object that is the body of a request
BodyKeys(request) ==
  {JSONParse(request.body).v.m[i][1] : i \in 1..Len(JSONParse(request.body).v.m)}

\* C28: the body of every POST /sim/page request is an object whose keys are
\* among pageNum, pageSize and the eight filters; cursor, format and any other
\* key of the tool's arguments are not in it.
C28_OnlyQueryKeysSent ==
  last # NoCall =>
    \A i \in 1..Len(last.sent) :
      last.sent[i].method = "POST" /\ last.sent[i].path = "/sim/page" =>
        /\ JsonObject(JSONParse(last.sent[i].body))
        /\ BodyKeys(last.sent[i]) \subseteq SimPageKeys

\* query_sim_list was called with a cursor, a format and an iccid, and posted
\* a body with the cursor's page number and none of the three keys
C28_ForeignKeysDropped ==
  /\ last # NoCall
  /\ last.tool = "query_sim_list"
  /\ Truthy(Get(last.params, K.cursor))
  /\ Get(last.params, K.format) = Str(STR_DETAILED)
  /\ Get(last.params, K.iccid) = Str(STR_ICCID)
  /\ Len(last.sent) = 1
  /\ last.sent[1].path = "/sim/page"
  /\ Get(SentBody(last.sent), K.pageNum) = Num(2)
  /\ BodyKeys(last.sent[1]) = {K.pageNum, K.pageSize}

\* what makeRequest made of the response to the call's request
Envelope200(result) == result.ok => Get(result.v, K.code) = Num(200)

\* every envelope makeRequest returned to a handler has code 200
ReturnedCode200 ==
  Requested => Envelope200(makeRequest(ServerLogger, "POST", "", Undefined, last.resp).res)

\* the handler failed in the branch that tests the response: it threw
\* new Error(response.msg || "Unknown error")
ResponseRejected ==
  /\ last # NoCall
  /\ ~last.res.ok
  /\ "tmpl" \in DOMAIN last.res.err.args[1]
  /\ last.res.err.args[1].tmpl = "%"

\* C29 as stated: every envelope makeRequest returns has code 200, and no tool
\* handler ever takes the failure branch of its test of the response.
C29_ResponseNeverRejected == ReturnedCode200 /\ ~ResponseRejected

\* C29, amended: every envelope makeRequest returns has code 200, so the test
\* `response.code !== 200` is false in every handler; the failure branch is
\* taken by euicc_profile_stats alone, for an envelope with code 200 whose
\* data is null or otherwise falsy.
C29_RejectedOnlyForMissingData ==
  /\ ReturnedCode200
  /\ ResponseRejected =>
       /\ last.tool = "euicc_profile_stats"
       /\ JsonObject(ResponseJson)
       /\ Get(ResponseJson.v, K.code) = Num(200)
       /\ ~Truthy(Get(ResponseJson.v, K.data))

\* euicc_profile_stats was answered with { code: 200, msg: "OK", data: null }
\* and failed with the message "OK"
C29_StatsRejectedNullData ==
  /\ ResponseRejected
  /\ last.tool = "euicc_profile_stats"
  /\ last.resp = HttpResponse(200, JSONStringify(Envelope(Num(200), MSG_OK, JNull)))
  /\ last.res.err.args[1].args = <<Str(MSG_OK)>>

\* the error a client's makeRequest wrapped as "Request failed: ..."
Wrapped(result) ==
  IF result.err.tmpl = "Request failed: %" THEN result.err.args[1] ELSE result.err

\* two outcomes of makeRequest agree: the same envelope, or failures of one kind
SameOutcome(a, b) ==
  IF a.ok /\ b.ok THEN a.v = b.v
  ELSE ~a.ok /\ ~b.ok /\ Wrapped(a).tmpl = Wrapped(b).tmpl

\* C30: for every response to a dispatched request (transport failure, any
\* status, any body) makeRequest of the TypeScript client and makeRequest of
\* the packaged client return the same envelope or fail with the same kind of
\* failure.
C30_ClientsAgree == Dispatched # <<>> => SameOutcome(last.res, last.packaged)

\* a response with status 200 and the body null: the TypeScript client
\* reports an invalid response format, the packaged client a TypeError
C30_NullBodyDiverges ==
  /\ Dispatched # <<>>
  /\ last.resp = HttpResponse(200, JSONStringify(JNull))
  /\ Wrapped(last.res).tmpl = "API Error: Invalid response format - %"
  /\ Wrapped(last.packaged).tmpl = "TypeError"

====
